---------------------------- MODULE Spec2Model ----------------------------
(***************************************************************************)
(* Response-shaping layer of home-media-mcp:                               *)
(*   utils/formatting.py  _make_serializable, summarize_item,              *)
(*                        summarize_list, _summarize_item_with_preserve    *)
(*   utils/filtering.py   _DateTimeEncoder, grep_filter                    *)
(*                                                                         *)
(* Every tool invocation is a single-shot call of pure functions, so the   *)
(* state machine has one idle state and one action per function; an action *)
(* draws the call's arguments, applies the function as the code computes   *)
(* it and records arguments and outcome.                                   *)
(*                                                                         *)
(* Data representation.  A JSON-like value is a record                     *)
(*   [t, n, s, kids]                                                       *)
(* t: "null" "bool" "int" "str" "date" "datetime" "list" "dict";           *)
(* n: the integer payload (int value, 1/0 for bool, yyyymmdd for dates);   *)
(* s: the characters of a str, one string per character (for a datetime   *)
(*    the six digits hhmmss of its time part);                             *)
(* kids: the members of a container, each [k, v]: k the key of a dict      *)
(*    entry ("" in a list), v the member value.                            *)
(* An item is what item.to_dict() returns: a sequence of [k, v] with       *)
(* distinct keys, in dict insertion order.                                 *)
(***************************************************************************)
EXTENDS Integers, Sequences, FiniteSets, TLC

(***************************************************************************)
(* Bounds of the model.                                                    *)
(***************************************************************************)
\* most fields of an item handed to summarize_item
MaxItemLen == 3
\* largest max_fields argument tried
MaxMaxFields == 3
\* most items of a collection handed to summarize_list / grep_filter
MaxListLen == 2
\* most characters of a grep pattern
MaxPatLen == 2
\* most names of a preserve_fields list
MaxPreserve == 2
\* most candidates of a reference collection handed to a resolver
MaxCandidates == 3
\* most characters of a str token handed to a resolver
MaxTokenLen == 2
\* most ids of one radarr_remove_queue_items request
MaxIds == 2
\* most tool invocations a started server is followed through
MaxInvocations == 2

\* how far below zero the max_fields argument goes (it is an unchecked int)
MaxBelowZero == 1

(***************************************************************************)
(* Values.                                                                 *)
(***************************************************************************)
NullV == [t |-> "null", n |-> 0, s |-> <<>>, kids |-> <<>>]
BoolV(b) == [t |-> "bool", n |-> IF b THEN 1 ELSE 0, s |-> <<>>, kids |-> <<>>]
IntV(i) == [t |-> "int", n |-> i, s |-> <<>>, kids |-> <<>>]
StrV(cs) == [t |-> "str", n |-> 0, s |-> cs, kids |-> <<>>]
DateV(ymd) == [t |-> "date", n |-> ymd, s |-> <<>>, kids |-> <<>>]
DateTimeV(ymd, hms) == [t |-> "datetime", n |-> ymd, s |-> hms, kids |-> <<>>]
ListV(vs) == [t |-> "list", n |-> 0, s |-> <<>>,
              kids |-> [i \in 1..Len(vs) |-> [k |-> "", v |-> vs[i]]]]
DictV(fs) == [t |-> "dict", n |-> 0, s |-> <<>>, kids |-> fs]
F(key, val) == [k |-> key, v |-> val]

\* IsScalar letting a sequence through
IsScalarOrList(v) == v.t \in {"str", "int", "bool", "null", "list"}

\* str, int, float, bool or None: the test of summarize_item line 54
IsScalar(v) == v.t \in {"str", "int", "bool", "null"}

(***************************************************************************)
(* Generic sequence helpers.                                               *)
(***************************************************************************)
RECURSIVE Concat(_)
Concat(ss) == IF Len(ss) = 0 THEN <<>> ELSE Head(ss) \o Concat(Tail(ss))

RECURSIVE SelectIdx(_, _, _)
\* the indices i >= from of 1..n for which keep[i], ascending
SelectIdx(keep, from, n) ==
    IF from > n THEN <<>>
    ELSE (IF keep[from] THEN <<from>> ELSE <<>>) \o SelectIdx(keep, from + 1, n)

Keys(fs) == {fs[i].k : i \in 1..Len(fs)}
HasKey(fs, key) == \E i \in 1..Len(fs) : fs[i].k = key
\* d[key] of a dict known to have the key
Lookup(fs, key) == fs[CHOOSE i \in 1..Len(fs) : fs[i].k = key].v

\* Python's seq[:stop] for any int stop (a negative stop counts from the end)
SliceTo(seq, stop) ==
    LET n == Len(seq)
        hi == IF stop >= 0 THEN (IF stop > n THEN n ELSE stop)
              ELSE (IF n + stop < 0 THEN 0 ELSE n + stop)
    IN SubSeq(seq, 1, hi)

\* dict.__setitem__: replace in place or append at the end
SetItem(fs, key, val) ==
    IF HasKey(fs, key)
    THEN [i \in 1..Len(fs) |-> IF fs[i].k = key THEN F(key, val) ELSE fs[i]]
    ELSE Append(fs, F(key, val))

RECURSIVE DictUpdate(_, _)
\* dict.update(other)
DictUpdate(fs, other) ==
    IF Len(other) = 0 THEN fs
    ELSE DictUpdate(SetItem(fs, Head(other).k, Head(other).v), Tail(other))

(***************************************************************************)
(* Text: characters are one-character strings; "U+00E9" stands for the one *)
(* non-ASCII character of the alphabet (e with acute accent).              *)
(***************************************************************************)
DigitChars == <<"0", "1", "2", "3", "4", "5", "6", "7", "8", "9">>

RECURSIVE NatChars(_)
NatChars(i) == IF i < 10 THEN <<DigitChars[i + 1]>>
               ELSE NatChars(i \div 10) \o <<DigitChars[(i % 10) + 1]>>

\* repr of an int, as json writes it
IntChars(i) == IF i < 0 THEN <<"-">> \o NatChars(0 - i) ELSE NatChars(i)

RECURSIVE ZeroPad(_, _)
ZeroPad(cs, width) == IF Len(cs) >= width THEN cs ELSE ZeroPad(<<"0">> \o cs, width)

\* date.isoformat(): YYYY-MM-DD
DateIso(ymd) ==
    ZeroPad(NatChars(ymd \div 10000), 4) \o <<"-">>
    \o ZeroPad(NatChars((ymd \div 100) % 100), 2) \o <<"-">>
    \o ZeroPad(NatChars(ymd % 100), 2)

\* datetime.isoformat(): YYYY-MM-DDTHH:MM:SS
DateTimeIso(ymd, hms) ==
    DateIso(ymd) \o <<"T">> \o SubSeq(hms, 1, 2) \o <<":">>
    \o SubSeq(hms, 3, 4) \o <<":">> \o SubSeq(hms, 5, 6)

\* the characters of a field name
KeyChars(key) ==
    CASE key = "id" -> <<"i", "d">>
      [] key = "title" -> <<"t", "i", "t", "l", "e">>
      [] key = "year" -> <<"y", "e", "a", "r">>
      [] key = "monitored" -> <<"m", "o", "n", "i", "t", "o", "r", "e", "d">>
      [] key = "hasFile" -> <<"h", "a", "s", "F", "i", "l", "e">>
      [] key = "added" -> <<"a", "d", "d", "e", "d">>
      [] key = "tags" -> <<"t", "a", "g", "s">>
      [] key = "quality" -> <<"q", "u", "a", "l", "i", "t", "y">>
      [] key = "name" -> <<"n", "a", "m", "e">>
      [] key = "overview" -> <<"o", "v", "e", "r", "v", "i", "e", "w">>
      [] OTHER -> <<>>

\* json string escaping with ensure_ascii=True
EscapeChar(c) ==
    CASE c = "U+00E9" -> <<"\\", "u", "0", "0", "e", "9">>
      [] c = "\"" -> <<"\\", "\"">>
      [] c = "\\" -> <<"\\", "\\">>
      [] OTHER -> <<c>>

JsonString(cs) ==
    <<"\"">> \o Concat([i \in 1..Len(cs) |-> EscapeChar(cs[i])]) \o <<"\"">>

(***************************************************************************)
(* _make_serializable: dates become ISO strings, containers are rebuilt    *)
(* member by member, everything else is returned as it is.                 *)
(***************************************************************************)
\* the members of a mapping converted, a sequence returned as it is
RECURSIVE MakeSerializableDictsOnly(_)
MakeSerializableDictsOnly(obj) ==
    CASE obj.t = "datetime" -> StrV(DateTimeIso(obj.n, obj.s))
      [] obj.t = "date" -> StrV(DateIso(obj.n))
      [] obj.t = "dict" ->
            [obj EXCEPT !.kids = [i \in 1..Len(obj.kids) |->
                F(obj.kids[i].k, MakeSerializableDictsOnly(obj.kids[i].v))]]
      [] OTHER -> obj

RECURSIVE _make_serializable(_)
_make_serializable(obj) ==
    CASE obj.t = "datetime" -> StrV(DateTimeIso(obj.n, obj.s))
      [] obj.t = "date" -> StrV(DateIso(obj.n))
      [] obj.t \in {"dict", "list"} ->
            [obj EXCEPT !.kids = [i \in 1..Len(obj.kids) |->
                F(obj.kids[i].k, _make_serializable(obj.kids[i].v))]]
      [] OTHER -> obj

\* _make_serializable(item.to_dict()): the item's normalized field map
Normalized(item) == _make_serializable(DictV(item)).kids

\* full_detail(item): the whole normalized field map
full_detail(item) == _make_serializable(DictV(item)).kids

(***************************************************************************)
(* JSON text of a value: json.dumps / JSONEncoder.encode with the default  *)
(* separators ", " and ": "; a date is written through the encoder's       *)
(* default hook as the JSON string of its isoformat().                     *)
(***************************************************************************)
RECURSIVE JsonEncode(_)
JsonEncode(v) ==
    LET member(m) == IF v.t = "dict"
                     THEN JsonString(KeyChars(m.k)) \o <<":", " ">> \o JsonEncode(m.v)
                     ELSE JsonEncode(m.v)
        body == Concat([i \in 1..Len(v.kids) |->
                    (IF i > 1 THEN <<",", " ">> ELSE <<>>) \o member(v.kids[i])])
    IN CASE v.t = "null" -> <<"n", "u", "l", "l">>
         [] v.t = "bool" -> IF v.n = 1 THEN <<"t", "r", "u", "e">>
                            ELSE <<"f", "a", "l", "s", "e">>
         [] v.t = "int" -> IntChars(v.n)
         [] v.t = "str" -> JsonString(v.s)
         [] v.t = "date" -> JsonString(DateIso(v.n))
         [] v.t = "datetime" -> JsonString(DateTimeIso(v.n, v.s))
         [] v.t = "list" -> <<"[">> \o body \o <<"]">>
         [] v.t = "dict" -> <<"{">> \o body \o <<"}">>

\* the sort key of summarize_item: len(json.dumps(value, default=str))
SerializedLen(v) == Len(JsonEncode(v))

(***************************************************************************)
(* summarize_item.                                                         *)
(***************************************************************************)
\* full.get("id"): the value under "id", None when the key is missing
IdValue(full) == IF HasKey(full, "id") THEN Lookup(full, "id") ELSE NullV

\* IdPresent written as a truthiness test, `if id_value:`
IdTruthy(id_value) == id_value.t # "null" /\ ~(id_value.t = "int" /\ id_value.n = 0)

\* `id_value is not None`
IdPresent(id_value) == id_value.t # "null"

\* ScalarFields without the type test: every non-id field
NonIdFields(full) ==
    LET keep == [i \in 1..Len(full) |-> full[i].k # "id"]
        idx == SelectIdx(keep, 1, Len(full))
    IN [j \in 1..Len(idx) |-> full[idx[j]]]

\* lines 50-55: the non-id fields with a scalar value, in field order
ScalarFields(full) ==
    LET keep == [i \in 1..Len(full) |-> full[i].k # "id" /\ IsScalar(full[i].v)]
        idx == SelectIdx(keep, 1, Len(full))
    IN [j \in 1..Len(idx) |-> full[idx[j]]]

\* put x behind every member whose key is <= the key of x
InsertBySize(sorted, x) ==
    LET p == Cardinality({i \in 1..Len(sorted) :
                 SerializedLen(sorted[i].v) <= SerializedLen(x.v)})
    IN SubSeq(sorted, 1, p) \o <<x>> \o SubSeq(sorted, p + 1, Len(sorted))

RECURSIVE SortBySizeFrom(_, _)
SortBySizeFrom(sorted, rest) ==
    IF Len(rest) = 0 THEN sorted
    ELSE SortBySizeFrom(InsertBySize(sorted, Head(rest)), Tail(rest))

\* line 58: list.sort(key=len(json.dumps(value))), ascending and stable
SortBySize(fields) == SortBySizeFrom(<<>>, fields)

\* Remaining without the slot reserved for the id
RemainingNoReserve(id_value, max_fields) == max_fields

\* lines 62-66: the slots left for non-id fields
Remaining(id_value, max_fields) ==
    IF IdPresent(id_value) THEN max_fields - 1 ELSE max_fields

summarize_item(item, max_fields) ==
    LET full == Normalized(item)
        id_value == IdValue(full)
        scalar_fields == SortBySize(ScalarFields(full))
    IN (IF IdPresent(id_value) THEN <<F("id", id_value)>> ELSE <<>>)
       \o SliceTo(scalar_fields, Remaining(id_value, max_fields))

(***************************************************************************)
(* Optional arguments: Python's None or a value.                           *)
(***************************************************************************)
None == [some |-> FALSE, val |-> <<>>]
Some(x) == [some |-> TRUE, val |-> x]

(***************************************************************************)
(* summarize_list and _summarize_item_with_preserve.                       *)
(***************************************************************************)
\* the preserve loop with a budget check: a field is added only while the
\* summary has fewer than max_fields keys
AddPreservedIfRoom(res, full, max_fields, fields) ==
    LET RECURSIVE go(_, _)
        go(r, fs) ==
            IF Len(fs) = 0 THEN r
            ELSE IF HasKey(full, Head(fs)) /\ ~HasKey(r, Head(fs))
                    /\ Len(r) < max_fields
                 THEN go(Append(r, F(Head(fs), Lookup(full, Head(fs)))), Tail(fs))
                 ELSE go(r, Tail(fs))
    IN go(res, fields)

\* lines 118-120: for field in preserve_fields: add full[field] when the
\* item has the field and the summary does not
AddPreserved(res, full, max_fields, fields) ==
    LET RECURSIVE go(_, _)
        go(r, fs) ==
            IF Len(fs) = 0 THEN r
            ELSE IF HasKey(full, Head(fs)) /\ ~HasKey(r, Head(fs))
                 THEN go(Append(r, F(Head(fs), Lookup(full, Head(fs)))), Tail(fs))
                 ELSE go(r, Tail(fs))
    IN go(res, fields)

\* the per-item summary taken with the default max_fields of the signature
\* instead of the caller's
ItemSummaryDefaultMax(item, max_fields) == summarize_item(item, 10)

\* line 115: result = summarize_item(item, max_fields=max_fields)
ItemSummary(item, max_fields) == summarize_item(item, max_fields)

\* `if preserve_fields:` is false for None and for an empty list
_summarize_item_with_preserve(item, max_fields, preserve_fields) ==
    LET res == ItemSummary(item, max_fields)
    IN IF preserve_fields.some /\ Len(preserve_fields.val) > 0
       THEN AddPreserved(res, Normalized(item), max_fields, preserve_fields.val)
       ELSE res

\* truth value of an attribute, as `if getattr(...)` takes it
Truthy(v) ==
    CASE v.t = "null" -> FALSE
      [] v.t \in {"bool", "int"} -> v.n # 0
      [] v.t = "str" -> Len(v.s) > 0
      [] v.t \in {"list", "dict"} -> Len(v.kids) > 0
      [] OTHER -> TRUE

\* sum(1 for x in items if getattr(x, attr, False))
CountTruthy(items, attr) ==
    Cardinality({i \in 1..Len(items) :
        HasKey(items[i], attr) /\ Truthy(Lookup(items[i], attr))})

_sonarr_series_summary(items) ==
    LET monitored == CountTruthy(items, "monitored")
    IN <<F("monitored", IntV(monitored)),
         F("unmonitored", IntV(Len(items) - monitored))>>

_radarr_movie_summary(items) ==
    LET monitored == CountTruthy(items, "monitored")
        has_file == CountTruthy(items, "hasFile")
    IN <<F("monitored", IntV(monitored)),
         F("unmonitored", IntV(Len(items) - monitored)),
         F("downloaded", IntV(has_file)),
         F("missing", IntV(Len(items) - has_file))>>

\* the aggregate callbacks the list tools pass as summary_fn
SummaryFns == {"None", "_sonarr_series_summary", "_radarr_movie_summary"}

CallSummaryFn(summary_fn, items) ==
    IF summary_fn = "_sonarr_series_summary" THEN _sonarr_series_summary(items)
    ELSE _radarr_movie_summary(items)

\* the total counted over the distinct items only
SummaryTotalDistinct(items) == Cardinality({items[i] : i \in 1..Len(items)})

\* line 97: {"total": len(items)}
SummaryTotal(items) == Len(items)

\* the callback handed the per-item summaries instead of the items
SummaryFnArgSummaries(items, max_fields, preserve_fields) ==
    [i \in 1..Len(items) |->
        _summarize_item_with_preserve(items[i], max_fields, preserve_fields)]

\* line 100: summary_fn(items) receives the list summarize_list was given
SummaryFnArg(items, max_fields, preserve_fields) == items

\* returns the response and the calls made to summary_fn
summarize_list(items, max_fields, summary_fn, preserve_fields) ==
    LET total == <<F("total", IntV(SummaryTotal(items)))>>
        fnArg == SummaryFnArg(items, max_fields, preserve_fields)
        summary == IF summary_fn # "None"
                   THEN DictUpdate(total, CallSummaryFn(summary_fn, fnArg))
                   ELSE total
    IN [ret |-> [summary |-> summary,
                 items |-> [i \in 1..Len(items) |->
                    _summarize_item_with_preserve(items[i], max_fields,
                                                  preserve_fields)]],
        calls |-> IF summary_fn # "None" THEN <<fnArg>> ELSE <<>>]

(***************************************************************************)
(* grep_filter.  Patterns are drawn from a subset of the regex language:   *)
(* literal characters, "." (any character), "^" and "$" (start and end of  *)
(* the text), a postfix "*" and an unclosed "[" (which does not compile).  *)
(***************************************************************************)
UpperCase == <<"A", "B", "C", "D", "E", "F", "G", "H", "I", "J", "K", "L", "M",
               "N", "O", "P", "Q", "R", "S", "T", "U", "V", "W", "X", "Y", "Z">>
LowerCase == <<"a", "b", "c", "d", "e", "f", "g", "h", "i", "j", "k", "l", "m",
               "n", "o", "p", "q", "r", "s", "t", "u", "v", "w", "x", "y", "z">>

\* str.lower() / case folding of one character
Lower(c) == IF \E i \in 1..26 : UpperCase[i] = c
            THEN LowerCase[CHOOSE i \in 1..26 : UpperCase[i] = c]
            ELSE c

IsAnchor(c) == c \in {"^", "$"}

\* re.compile: "" on success, else the compiler's error text
CompileError(pattern) ==
    LET n == Len(pattern)
        bad(i) == \/ pattern[i] = "["
                  \/ /\ pattern[i] = "*"
                     /\ (i = 1 \/ IsAnchor(pattern[i - 1]) \/ pattern[i - 1] = "*")
    IN IF \E i \in 1..n : bad(i)
       THEN LET i == CHOOSE j \in 1..n : bad(j) /\ \A h \in 1..(j - 1) : ~bad(h)
            IN IF pattern[i] = "["
               THEN "unterminated character set"
               ELSE IF i > 1 /\ pattern[i - 1] = "*" THEN "multiple repeat"
               ELSE "nothing to repeat"
       ELSE ""

\* CharMatches without re.IGNORECASE
CharMatchesExact(pc, c) == pc = "." \/ pc = c

\* one pattern character against one character of the text, re.IGNORECASE
CharMatches(pc, c) == pc = "." \/ Lower(pc) = Lower(c)

RECURSIVE MatchHere(_, _, _, _)
\* the pattern from position i matches the text from position j
MatchHere(pattern, i, text, j) ==
    IF i > Len(pattern) THEN TRUE
    ELSE IF i < Len(pattern) /\ pattern[i + 1] = "*"
    THEN \E m \in 0..(Len(text) - j + 1) :
            /\ \A h \in j..(j + m - 1) : CharMatches(pattern[i], text[h])
            /\ MatchHere(pattern, i + 2, text, j + m)
    ELSE IF pattern[i] = "^" THEN j = 1 /\ MatchHere(pattern, i + 1, text, j)
    ELSE IF pattern[i] = "$"
    THEN j = Len(text) + 1 /\ MatchHere(pattern, i + 1, text, j)
    ELSE /\ j <= Len(text)
         /\ CharMatches(pattern[i], text[j])
         /\ MatchHere(pattern, i + 1, text, j + 1)

\* compiled.match: only at the start of the text
MatchAtStart(pattern, text) == MatchHere(pattern, 1, text, 1)

\* line 56, compiled.search: at any position of the text
Search(pattern, text) ==
    \E j \in 1..(Len(text) + 1) : MatchHere(pattern, 1, text, j)

\* line 56: _encoder.encode(item.to_dict())
Serialized(item) == JsonEncode(DictV(item))

\* the comprehension run over items[1:]
FilterItemsSkipFirst(items, pattern) ==
    LET keep == [i \in 1..Len(items) |->
                    i > 1 /\ Search(pattern, Serialized(items[i]))]
        idx == SelectIdx(keep, 1, Len(items))
    IN [j \in 1..Len(idx) |-> items[idx[j]]]

RECURSIVE FilterItems(_, _)
\* the list comprehension of line 56
FilterItems(items, pattern) ==
    IF Len(items) = 0 THEN <<>>
    ELSE (IF Search(pattern, Serialized(Head(items))) THEN <<Head(items)>> ELSE <<>>)
         \o FilterItems(Tail(items), pattern)

\* the early return written as `return []`
ReturnNothing(items) ==
    [raised |-> FALSE, value |-> <<>>, error |-> <<>>, examined |-> 0]

\* lines 48-49: `if pattern is None: return items`
ReturnUnfiltered(items) ==
    [raised |-> FALSE, value |-> items, error |-> <<>>, examined |-> 0]

\* the message without the pattern
InvalidPatternErrorBare(pattern) ==
    <<"Invalid grep pattern", <<>>, CompileError(pattern)>>

\* line 54: ToolError(f"Invalid grep pattern '{pattern}': {e}")
InvalidPatternError(pattern) ==
    <<"Invalid grep pattern", pattern, CompileError(pattern)>>

\* returns [raised, value, error, examined]: the list or the ToolError
\* raised, and the number of items that were serialized and searched
grep_filter(items, pattern) ==
    IF ~pattern.some THEN ReturnUnfiltered(items)
    ELSE IF CompileError(pattern.val) # ""
    THEN [raised |-> TRUE, value |-> <<>>,
          error |-> InvalidPatternError(pattern.val), examined |-> 0]
    ELSE [raised |-> FALSE, value |-> FilterItems(items, pattern.val),
          error |-> <<>>, examined |-> Len(items)]

(***************************************************************************)
(* utils/resolution.py.  A token is the caller's name_or_id: an int or a   *)
(* str.  A candidate is [id, name]; name is the attribute the resolver     *)
(* reads (name, label or path), None when the resource has none.  A        *)
(* resolver returns [raised, value, error]; the ToolError is kept in parts *)
(* [kind, entity, token, target, listed, advice].                          *)
(***************************************************************************)
IntTok(i) == [isInt |-> TRUE, n |-> i, s |-> <<>>]
StrTok(cs) == [isInt |-> FALSE, n |-> 0, s |-> cs]

\* str.isdigit(): not empty and digits only
IsDigit(cs) == Len(cs) > 0 /\ \A i \in 1..Len(cs) : \E d \in 1..10 : DigitChars[d] = cs[i]

RECURSIVE ParseInt(_)
\* int(s) of a digit string
ParseInt(cs) ==
    IF Len(cs) = 0 THEN 0
    ELSE 10 * ParseInt(SubSeq(cs, 1, Len(cs) - 1))
         + ((CHOOSE d \in 1..10 : DigitChars[d] = cs[Len(cs)]) - 1)

\* the id branch taken for ints only
IsNumericTokenIntOnly(tok) == tok.isInt

\* lines 133-135 and 58-60: isinstance(x, int) or (isinstance(x, str) and x.isdigit())
IsNumericToken(tok) == tok.isInt \/ IsDigit(tok.s)

\* int(name_or_id)
TargetId(tok) == IF tok.isInt THEN tok.n ELSE ParseInt(tok.s)

\* str(name_or_id) of a token
TokenText(tok) == IF tok.isInt THEN IntChars(tok.n) ELSE tok.s

\* str.lower()
LowerStr(cs) == [i \in 1..Len(cs) |-> Lower(cs[i])]

\* `sub in text`
Contains(text, sub) ==
    \E j \in 0..(Len(text) - Len(sub)) : \A i \in 1..Len(sub) : text[j + i] = sub[i]

\* (getattr(item, name_attr, None) or "")
NameOrEmpty(c) == IF c.name.some THEN c.name.val ELSE <<>>

\* f"{item.id}: {name}", a missing name is printed as None
RenderCandidate(c) ==
    IntChars(c.id) \o <<":", " ">>
    \o (IF c.name.some THEN c.name.val ELSE <<"N", "o", "n", "e">>)

RenderAll(cs) == [i \in 1..Len(cs) |-> RenderCandidate(cs[i])]

\* the name test as a containment test
NameMatchesSubstring(c, name_lower) == Contains(LowerStr(NameOrEmpty(c)), name_lower)

\* line 147: (getattr(item, name_attr, None) or "").lower() == name_lower
NameMatches(c, name_lower) == LowerStr(NameOrEmpty(c)) = name_lower

\* the path test without .lower() on the folder's path
PathMatchesCaseSensitive(c, path_lower) == Contains(NameOrEmpty(c), path_lower)

\* line 69: path_lower in (f.path or "").lower()
PathMatches(c, path_lower) == Contains(LowerStr(NameOrEmpty(c)), path_lower)

\* the ambiguity test off by one
IsAmbiguousOverTwo(matches) == Len(matches) > 2

\* lines 156 and 76: len(matches) > 1
IsAmbiguous(matches) == Len(matches) > 1

\* the listing built from the matches
AvailableFromMatches(items, matches) == RenderAll(matches)

\* lines 151 and 72: one "<id>: <name>" for every item of the collection
Available(items, matches) == RenderAll(items)

Returned(id) == [raised |-> FALSE, value |-> id, error |-> <<>>]
Raised(kind, entity, tok, target, listed, advice) ==
    [raised |-> TRUE, value |-> 0,
     error |-> [kind |-> kind, entity |-> entity, token |-> TokenText(tok),
                target |-> target, listed |-> listed, advice |-> advice]]

\* lines 136-140 and 61-65: the id is returned when some item carries it
ResolveId(tok, items, entity) ==
    LET target_id == TargetId(tok)
    IN IF \E i \in 1..Len(items) : items[i].id = target_id
       THEN Returned(target_id)
       ELSE Raised("id_not_found", entity, tok, target_id, <<>>, "")

\* lines 150-163 and 71-83: none, several or one match
ResolveMatches(tok, items, matches, entity) ==
    IF Len(matches) = 0
    THEN Raised("no_match", entity, tok, 0, Available(items, matches), "")
    ELSE IF IsAmbiguous(matches)
    THEN Raised("ambiguous", entity, tok, 0, RenderAll(matches),
                "Use the numeric ID instead.")
    ELSE Returned(matches[1].id)

_resolve_by_name_or_id(name_or_id, items, name_attr, entity_type) ==
    IF IsNumericToken(name_or_id) THEN ResolveId(name_or_id, items, entity_type)
    ELSE LET name_lower == LowerStr(TokenText(name_or_id))
             keep == [i \in 1..Len(items) |-> NameMatches(items[i], name_lower)]
             idx == SelectIdx(keep, 1, Len(items))
             matches == [j \in 1..Len(idx) |-> items[idx[j]]]
         IN ResolveMatches(name_or_id, items, matches, entity_type)

resolve_quality_profile(name_or_id, profiles) ==
    _resolve_by_name_or_id(name_or_id, profiles, "name", "quality profile")

resolve_tag(name_or_id, tags) ==
    _resolve_by_name_or_id(name_or_id, tags, "label", "tag")

resolve_root_folder(path_or_id, folders) ==
    IF IsNumericToken(path_or_id) THEN ResolveId(path_or_id, folders, "root folder")
    ELSE LET path_lower == LowerStr(TokenText(path_or_id))
             keep == [i \in 1..Len(folders) |-> PathMatches(folders[i], path_lower)]
             idx == SelectIdx(keep, 1, Len(folders))
             matches == [j \in 1..Len(idx) |-> folders[idx[j]]]
         IN ResolveMatches(path_or_id, folders, matches, "root folder")

Resolvers == {"resolve_quality_profile", "resolve_root_folder", "resolve_tag"}

CallResolver(resolver, tok, items) ==
    CASE resolver = "resolve_quality_profile" -> resolve_quality_profile(tok, items)
      [] resolver = "resolve_tag" -> resolve_tag(tok, items)
      [] OTHER -> resolve_root_folder(tok, items)

(***************************************************************************)
(* Inputs.  Field values follow the shapes of the upstream API resources:  *)
(* an id, where a resource has one, is an integer; the other fields are    *)
(* strings, numbers, booleans, nulls, dates and nested containers.         *)
(***************************************************************************)
NestedQuality == DictV(<<F("name", StrV(<<"A", "b">>)), F("id", IntV(7))>>)

FieldPool ==
    {F("id", IntV(0)), F("id", IntV(7)), F("id", IntV(1234)),
     F("title", StrV(<<"a">>)), F("title", StrV(<<"A", "b">>)),
     F("title", StrV(<<"U+00E9">>)),
     F("year", IntV(2024)), F("year", NullV),
     F("monitored", BoolV(TRUE)), F("monitored", BoolV(FALSE)),
     F("added", DateV(20240102)),
     F("added", DateTimeV(20240102, <<"0", "3", "0", "4", "0", "5">>)),
     F("tags", ListV(<<IntV(1), IntV(2)>>)), F("tags", ListV(<<>>)),
     F("quality", NestedQuality)}

DistinctKeys(fs) == \A i, j \in 1..Len(fs) : fs[i].k = fs[j].k => i = j

\* the items handed to summarize_item
Items ==
    {fs \in UNION {[1..n -> FieldPool] : n \in 0..MaxItemLen} : DistinctKeys(fs)}

\* fields with dates at every depth, for full_detail
DetailPool ==
    {F("id", IntV(7)), F("title", StrV(<<"A", "b">>)), F("year", NullV),
     F("monitored", BoolV(TRUE)),
     F("added", DateV(20240102)),
     F("added", DateTimeV(20231231, <<"2", "3", "5", "9", "0", "7">>)),
     F("tags", ListV(<<DateV(20240102), IntV(1)>>)),
     F("tags", ListV(<<>>)),
     F("quality", DictV(<<F("name", StrV(<<"a">>)),
                          F("added", DateTimeV(20240102, <<"0", "3", "0", "4", "0", "5">>))>>)),
     F("quality", DictV(<<F("tags", ListV(<<ListV(<<DateV(20231231)>>),
                                            DictV(<<F("added", DateV(20240102))>>)>>))>>))}

DetailItems ==
    {fs \in UNION {[1..n -> DetailPool] : n \in 0..MaxItemLen} : DistinctKeys(fs)}

MaxFieldsArgs == (0 - MaxBelowZero)..MaxMaxFields

NestedRelease ==
    DictV(<<F("name", StrV(<<"b", "1">>)), F("tags", ListV(<<IntV(2), NullV>>))>>)

\* the resources the collections are made of
ListPool ==
    {<<F("id", IntV(1)), F("title", StrV(<<"A", "b">>)), F("monitored", BoolV(TRUE)),
       F("hasFile", BoolV(TRUE)), F("quality", NestedQuality)>>,
     <<F("title", StrV(<<"a">>)), F("monitored", BoolV(FALSE)),
       F("tags", ListV(<<IntV(1), IntV(2)>>)), F("added", DateV(20240102))>>,
     <<F("id", IntV(0)), F("overview", StrV(<<"U+00E9", "a", "b", "a", "b", "a">>)),
       F("year", NullV), F("hasFile", BoolV(FALSE))>>,
     <<F("id", IntV(1234)), F("quality", NestedRelease), F("title", StrV(<<"U+00E9">>))>>,
     <<F("year", IntV(2024)), F("monitored", BoolV(TRUE))>>}

\* the collections handed to summarize_list and grep_filter
ItemLists == UNION {[1..n -> ListPool] : n \in 0..MaxListLen}

PreserveKeys == {"id", "title", "quality", "name"}

\* preserve_fields: None or a list of field names
PreserveArgs ==
    {None} \cup {Some(fs) : fs \in UNION {[1..n -> PreserveKeys] : n \in 0..MaxPreserve}}

PatChars == {"a", "B", "1", ".", "^", "$", "*", "["}

\* pattern: None or a string
PatternArgs ==
    {None} \cup {Some(cs) : cs \in UNION {[1..n -> PatChars] : n \in 0..MaxPatLen}}

(***************************************************************************)
(* services/radarr/tools/queue.py, radarr_remove_queue_items.  The         *)
(* invocation suspends at `await radarr_api_call(list_queue_details)` and  *)
(* at `await asyncio.gather(...)`; each bulk removal runs in its own       *)
(* worker thread (asyncio.to_thread), so the removals begin and end in any *)
(* order.  A task is [ids, blocklist, remove_from_client, st, exc] with st *)
(* "created", "running", "ok" or "raised".                                 *)
(***************************************************************************)
QueueItem(id, download_id) == [id |-> id, download_id |-> download_id]

\* queue_by_id.get(queue_id): the last item with that id, None without one
QueueGet(queue_items, queue_id) ==
    LET hits == {i \in 1..Len(queue_items) : queue_items[i].id = queue_id}
    IN IF hits = {} THEN None
       ELSE Some(queue_items[CHOOSE i \in hits : \A j \in hits : j <= i])

\* lines 104-111: "unknown", "tracked" or "pending"
Classify(queue_items, queue_id) ==
    LET item == QueueGet(queue_items, queue_id)
    IN IF ~item.some THEN "unknown"
       ELSE IF item.val.download_id.some /\ Len(item.val.download_id.val) > 0
       THEN "tracked"
       ELSE "pending"

\* the ids of one class, in request order
IdsOfClass(queue_items, ids, cls) ==
    LET keep == [i \in 1..Len(ids) |-> Classify(queue_items, ids[i]) = cls]
        idx == SelectIdx(keep, 1, Len(ids))
    IN [j \in 1..Len(idx) |-> ids[idx[j]]]

NewTask(ids, blocklist, remove_from_client) ==
    [ids |-> ids, blocklist |-> blocklist,
     remove_from_client |-> remove_from_client, st |-> "created", exc |-> ""]

\* the pending removal made with the caller's remove_from_client
BuildTasksSameFlag(tracked_ids, pending_ids, blocklist, remove_from_client) ==
    (IF Len(tracked_ids) > 0
     THEN <<NewTask(tracked_ids, blocklist, remove_from_client)>> ELSE <<>>)
    \o (IF Len(pending_ids) > 0
        THEN <<NewTask(pending_ids, blocklist, remove_from_client)>> ELSE <<>>)

\* lines 113-133: one removal for the tracked ids, one for the pending ids
BuildTasks(tracked_ids, pending_ids, blocklist, remove_from_client) ==
    (IF Len(tracked_ids) > 0
     THEN <<NewTask(tracked_ids, blocklist, remove_from_client)>> ELSE <<>>)
    \o (IF Len(pending_ids) > 0
        THEN <<NewTask(pending_ids, blocklist, FALSE)>> ELSE <<>>)

\* the label taken from tracked_ids alone
WhichIgnoringIndex(i, tracked_ids) ==
    IF Len(tracked_ids) > 0 THEN "tracked" ELSE "pending"

\* line 140: "tracked" if i == 0 and tracked_ids else "pending" (i from 0)
Which(i, tracked_ids) ==
    IF i = 0 /\ Len(tracked_ids) > 0 THEN "tracked" ELSE "pending"

\* lines 135-144: one entry per raised result, then the unknown ids
BuildErrors(tasks, tracked_ids, unknown_ids) ==
    LET keep == [i \in 1..Len(tasks) |-> tasks[i].st = "raised"]
        idx == SelectIdx(keep, 1, Len(tasks))
        failed == [j \in 1..Len(idx) |->
                     [kind |-> "failed", which |-> Which(idx[j] - 1, tracked_ids),
                      detail |-> tasks[idx[j]].exc, ids |-> <<>>]]
    IN failed \o (IF Len(unknown_ids) > 0
                  THEN <<[kind |-> "unknown", which |-> "", detail |-> "",
                          ids |-> unknown_ids]>>
                  ELSE <<>>)

\* lines 146-154: the response
RemoveResponse(tasks, tracked_ids, pending_ids, unknown_ids, blocklist) ==
    LET errors == BuildErrors(tasks, tracked_ids, unknown_ids)
        removed_count == Len(tracked_ids) + Len(pending_ids)
    IN [raised |-> FALSE,
        success |-> removed_count > 0,
        removed_count |-> removed_count,
        blocklisted |-> blocklist,
        tracked_removed |-> Len(tracked_ids),
        pending_removed |-> Len(pending_ids),
        errors |-> IF Len(errors) > 0 THEN Some(errors) ELSE None]

Cand(id, name) == [id |-> id, name |-> name]

\* the reference entries (quality profiles, tags, root folders)
CandidatePool ==
    {Cand(1, Some(<<"a">>)), Cand(2, Some(<<"A">>)), Cand(3, Some(<<"/", "a", "b">>)),
     Cand(4, Some(<<"/", "A", "b">>)), Cand(11, Some(<<"1">>)), Cand(5, None)}

CandidateLists == UNION {[1..n -> CandidatePool] : n \in 0..MaxCandidates}

TokenChars == {"a", "A", "b", "1", "/"}

\* name_or_id: an int or a str
Tokens ==
    {IntTok(i) : i \in {1, 2, 5, 11}}
    \cup {StrTok(cs) : cs \in UNION {[1..n -> TokenChars] : n \in 0..MaxTokenLen}}

(***************************************************************************)
(* config.py, Config.from_env, and a list tool (radarr_list_movies).       *)
(***************************************************************************)
\* the default of summarize_list's max_fields parameter
DefaultMaxFields == 10

\* config.py lines 52-54: int(os.environ.get("MCP_LIST_SUMMARY_MAX_FIELDS", "10"))
list_summary_max_fields(env) == ParseInt(IF env.some THEN env.val ELSE <<"1", "0">>)

\* movies.py line 39: summarize_list(filtered, summary_fn=...) without max_fields,
\* whatever the configuration holds
ListMaxFields(config) == DefaultMaxFields

\* movies.py lines 26-39; the upstream's answer is all_movies
radarr_list_movies(config, all_movies, grep) ==
    LET filtered == grep_filter(all_movies, grep)
        out == summarize_list(filtered.value, ListMaxFields(config),
                              "_radarr_movie_summary", None)
    IN IF filtered.raised
       THEN [raised |-> TRUE, error |-> filtered.error, value |-> <<>>, calls |-> <<>>]
       ELSE [raised |-> FALSE, error |-> <<>>, value |-> out.ret, calls |-> out.calls]

\* MCP_LIST_SUMMARY_MAX_FIELDS: unset or a decimal number
EnvMaxFieldsArgs == {None} \cup {Some(NatChars(n)) : n \in 1..MaxMaxFields}

(***************************************************************************)
(* The adapter tools that fetch, add, update or delete one entity.  A tool *)
(* is the sequence of its upstream calls; each call is one step, made in   *)
(* a worker thread and awaited before the next statement runs.             *)
(***************************************************************************)
UpdateTools == {"radarr_update_movie", "sonarr_update_series", "radarr_update_collection"}
AddTools == {"radarr_add_movie", "sonarr_add_series"}
DescribeTools == {"radarr_describe_movie"}
DeleteTools == {"radarr_delete_movie", "radarr_remove_blocklist_item"}
AdapterTools == UpdateTools \cup AddTools \cup DescribeTools \cup DeleteTools

\* the upstream calls that change the upstream's state
MutatingCalls == {"create", "update", "delete"}

\* how a call on one entity ends: HTTP 404 is NotFoundException
EntityOutcomes == {"ok", "NotFoundException", "ApiException"}

\* how a call for a collection ends
ListOutcomes == {"ok", "ApiException"}

\* the call is inside `try: ... except NotFoundException: return {...}`
CatchesNotFound(tool, call) ==
    \/ call = "get_by_id"
    \/ call = "delete" /\ tool = "radarr_delete_movie"

\* an update tool sending its update right after the fetch
StepsUpdateFirst(tool, a) ==
    IF tool \in UpdateTools
    THEN <<"get_by_id", "update">>
         \o (IF a.quality_profile.some THEN <<"list_quality_profile">> ELSE <<>>)
         \o (IF a.root_folder.some THEN <<"list_root_folder">> ELSE <<>>)
         \o (IF a.tags.some THEN <<"list_tag">> ELSE <<>>)
    ELSE IF tool \in AddTools
    THEN <<"list_quality_profile", "list_root_folder", "lookup", "create">>
    ELSE IF tool \in DescribeTools THEN <<"get_by_id">>
    ELSE <<"delete">>

\* the upstream calls of a tool, in the order of its statements; an update
\* tool skips the list call of an argument that is None
Steps(tool, a) ==
    IF tool \in UpdateTools
    THEN <<"get_by_id">>
         \o (IF a.quality_profile.some THEN <<"list_quality_profile">> ELSE <<>>)
         \o (IF a.root_folder.some THEN <<"list_root_folder">> ELSE <<>>)
         \o (IF a.tags.some THEN <<"list_tag">> ELSE <<>>)
         \o <<"update">>
    ELSE IF tool \in AddTools
    THEN <<"list_quality_profile", "list_root_folder", "lookup", "create">>
    ELSE IF tool \in DescribeTools THEN <<"get_by_id">>
    ELSE <<"delete">>

\* what a tool returns: a resource or success mapping (error ""), or the
\* mapping {error, message}
ToolReturn(error) == [raised |-> FALSE, exc |-> "", error |-> error, cause |-> <<>>]

\* an exception leaving the tool
ToolRaise(exc, cause) == [raised |-> TRUE, exc |-> exc, error |-> "", cause |-> cause]

\* [resolve_tag(t, all_tags) for t in tags]: the first failure is raised
RECURSIVE ResolveTags(_, _, _)
ResolveTags(tags, all_tags, done) ==
    IF Len(tags) = 0 THEN [raised |-> FALSE, value |-> done, error |-> <<>>]
    ELSE LET r == resolve_tag(Head(tags), all_tags)
         IN IF r.raised THEN r
            ELSE ResolveTags(Tail(tags), all_tags, Append(done, r.value))

\* next(f.path for f in folders if f.id == root_folder_id)
FolderPath(folders, root_folder_id) ==
    folders[CHOOSE i \in 1..Len(folders) :
               /\ folders[i].id = root_folder_id
               /\ \A j \in 1..Len(folders) : folders[j].id = root_folder_id => i <= j].name

NoInvocation ==
    [tool |-> "", a |-> <<>>, steps |-> <<>>, pc |-> 0, quality_profile_id |-> 0,
     root_folder_path |-> None, tag_ids |-> <<>>]

\* quality_profile, root_folder and tag arguments
ToolTokens == {IntTok(1), StrTok(<<"a">>), StrTok(<<"b">>)}
OptToolTokens == {None} \cup {Some(t) : t \in ToolTokens}
TagArgs == {None, Some(<<>>)} \cup {Some(<<t>>) : t \in ToolTokens}
                \cup {Some(<<IntTok(1), StrTok(<<"b">>)>>)}

\* what list_quality_profile, list_root_folder and list_tag answer
RefResponses == {<<Cand(1, Some(<<"a">>))>>,
                 <<Cand(1, Some(<<"a">>)), Cand(2, Some(<<"A">>))>>}

\* the arguments of one invocation of a tool
ToolArgs(tool) ==
    IF tool \in {"radarr_update_movie", "sonarr_update_series"}
    THEN {[id |-> 1, quality_profile |-> q, root_folder |-> None, tags |-> t] :
             q \in OptToolTokens, t \in TagArgs}
    ELSE IF tool = "radarr_update_collection"
    THEN {[id |-> 1, quality_profile |-> q, root_folder |-> r, tags |-> None] :
             q \in OptToolTokens, r \in OptToolTokens}
    ELSE IF tool \in AddTools
    THEN {[id |-> 1, quality_profile |-> Some(q), root_folder |-> Some(r), tags |-> None] :
             q \in ToolTokens, r \in ToolTokens}
    ELSE {[id |-> 1, quality_profile |-> None, root_folder |-> None, tags |-> None]}

(***************************************************************************)
(* services/radarr/tools/movies.py, radarr_lookup_movie.                   *)
(***************************************************************************)
\* sum(x is not None for x in (term, tmdb_id, imdb_id))
SuppliedCount(term, tmdb_id, imdb_id) ==
    (IF term.some THEN 1 ELSE 0) + (IF tmdb_id.some THEN 1 ELSE 0)
    + (IF imdb_id.some THEN 1 ELSE 0)

\* the request refused only when nothing is supplied
LookupInvalidWhenEmpty(term, tmdb_id, imdb_id) ==
    SuppliedCount(term, tmdb_id, imdb_id) = 0

\* line 79: the request is refused unless exactly one is supplied
LookupInvalid(term, tmdb_id, imdb_id) ==
    SuppliedCount(term, tmdb_id, imdb_id) # 1

\* lines 86-91: the lookup made for the arguments
LookupCall(term, tmdb_id, imdb_id) ==
    IF term.some THEN "list_movie_lookup"
    ELSE IF tmdb_id.some THEN "list_movie_lookup_tmdb"
    ELSE "list_movie_lookup_imdb"

\* term, tmdb_id and imdb_id: None, or a value that may be empty or zero
LookupArgs ==
    [term : {None, Some(<<>>), Some(<<"a">>)},
     tmdb_id : {[some |-> FALSE, val |-> 0], Some(0), Some(7)},
     imdb_id : {None, Some(<<"t", "t", "1">>)}]

(***************************************************************************)
(* main.py and server.py: the tools registered on the shared server, the   *)
(* read-only switch and the lifespan context.  A tool is listed with the   *)
(* tag of its @mcp.tool decorator and the HTTP method of the upstream call *)
(* it makes (the modifying one, for a tool that also reads).               *)
(***************************************************************************)
Tool(name, service, tag, method) ==
    [name |-> name, service |-> service, tag |-> tag, method |-> method]

RadarrTools ==
    {Tool("radarr_list_alternative_titles", "radarr", "read", "GET"),
     Tool("radarr_list_blocklist", "radarr", "read", "GET"),
     Tool("radarr_remove_blocklist_item", "radarr", "write", "DELETE"),
     Tool("radarr_get_calendar", "radarr", "read", "GET"),
     Tool("radarr_list_collections", "radarr", "read", "GET"),
     Tool("radarr_describe_collection", "radarr", "read", "GET"),
     Tool("radarr_update_collection", "radarr", "write", "PUT"),
     Tool("radarr_run_command", "radarr", "write", "POST"),
     Tool("radarr_list_commands", "radarr", "read", "GET"),
     Tool("radarr_describe_command", "radarr", "read", "GET"),
     Tool("radarr_list_credits", "radarr", "read", "GET"),
     Tool("radarr_list_exclusions", "radarr", "read", "GET"),
     Tool("radarr_add_exclusion", "radarr", "write", "POST"),
     Tool("radarr_remove_exclusion", "radarr", "write", "DELETE"),
     Tool("radarr_list_history", "radarr", "read", "GET"),
     Tool("radarr_list_movie_history", "radarr", "read", "GET"),
     Tool("radarr_preview_manual_import", "radarr", "read", "GET"),
     Tool("radarr_execute_manual_import", "radarr", "write", "POST"),
     Tool("radarr_list_movie_files", "radarr", "read", "GET"),
     Tool("radarr_describe_movie_file", "radarr", "read", "GET"),
     Tool("radarr_delete_movie_file", "radarr", "write", "DELETE"),
     Tool("radarr_list_movies", "radarr", "read", "GET"),
     Tool("radarr_describe_movie", "radarr", "read", "GET"),
     Tool("radarr_lookup_movie", "radarr", "read", "GET"),
     Tool("radarr_add_movie", "radarr", "write", "POST"),
     Tool("radarr_update_movie", "radarr", "write", "PUT"),
     Tool("radarr_delete_movie", "radarr", "write", "DELETE"),
     Tool("radarr_list_queue", "radarr", "read", "GET"),
     Tool("radarr_describe_queue_item", "radarr", "read", "GET"),
     Tool("radarr_grab_queue_item", "radarr", "write", "POST"),
     Tool("radarr_remove_queue_items", "radarr", "write", "DELETE"),
     Tool("radarr_list_quality_profiles", "radarr", "read", "GET"),
     Tool("radarr_describe_quality_profile", "radarr", "read", "GET"),
     Tool("radarr_list_tags", "radarr", "read", "GET"),
     Tool("radarr_describe_tag", "radarr", "read", "GET"),
     Tool("radarr_list_root_folders", "radarr", "read", "GET"),
     Tool("radarr_preview_rename", "radarr", "read", "GET"),
     Tool("radarr_search_releases", "radarr", "read", "GET"),
     Tool("radarr_download_release", "radarr", "write", "POST"),
     Tool("radarr_get_system_status", "radarr", "read", "GET"),
     Tool("radarr_list_health_checks", "radarr", "read", "GET"),
     Tool("radarr_get_disk_space", "radarr", "read", "GET"),
     Tool("radarr_list_logs", "radarr", "read", "GET"),
     Tool("radarr_list_missing", "radarr", "read", "GET"),
     Tool("radarr_list_cutoff_unmet", "radarr", "read", "GET")}

SonarrTools ==
    {Tool("sonarr_list_blocklist", "sonarr", "read", "GET"),
     Tool("sonarr_remove_blocklist_item", "sonarr", "write", "DELETE"),
     Tool("sonarr_get_calendar", "sonarr", "read", "GET"),
     Tool("sonarr_run_command", "sonarr", "write", "POST"),
     Tool("sonarr_list_commands", "sonarr", "read", "GET"),
     Tool("sonarr_describe_command", "sonarr", "read", "GET"),
     Tool("sonarr_list_episode_files", "sonarr", "read", "GET"),
     Tool("sonarr_describe_episode_file", "sonarr", "read", "GET"),
     Tool("sonarr_delete_episode_file", "sonarr", "write", "DELETE"),
     Tool("sonarr_list_episodes", "sonarr", "read", "GET"),
     Tool("sonarr_describe_episode", "sonarr", "read", "GET"),
     Tool("sonarr_update_episodes", "sonarr", "write", "PUT"),
     Tool("sonarr_update_season", "sonarr", "write", "PUT"),
     Tool("sonarr_list_history", "sonarr", "read", "GET"),
     Tool("sonarr_list_series_history", "sonarr", "read", "GET"),
     Tool("sonarr_preview_manual_import", "sonarr", "read", "GET"),
     Tool("sonarr_execute_manual_import", "sonarr", "write", "POST"),
     Tool("sonarr_list_queue", "sonarr", "read", "GET"),
     Tool("sonarr_describe_queue_item", "sonarr", "read", "GET"),
     Tool("sonarr_grab_queue_item", "sonarr", "write", "POST"),
     Tool("sonarr_remove_queue_items", "sonarr", "write", "DELETE"),
     Tool("sonarr_list_quality_profiles", "sonarr", "read", "GET"),
     Tool("sonarr_describe_quality_profile", "sonarr", "read", "GET"),
     Tool("sonarr_list_tags", "sonarr", "read", "GET"),
     Tool("sonarr_describe_tag", "sonarr", "read", "GET"),
     Tool("sonarr_list_root_folders", "sonarr", "read", "GET"),
     Tool("sonarr_preview_rename", "sonarr", "read", "GET"),
     Tool("sonarr_search_releases", "sonarr", "read", "GET"),
     Tool("sonarr_download_release", "sonarr", "write", "POST"),
     Tool("sonarr_list_series", "sonarr", "read", "GET"),
     Tool("sonarr_describe_series", "sonarr", "read", "GET"),
     Tool("sonarr_lookup_series", "sonarr", "read", "GET"),
     Tool("sonarr_add_series", "sonarr", "write", "POST"),
     Tool("sonarr_update_series", "sonarr", "write", "PUT"),
     Tool("sonarr_delete_series", "sonarr", "write", "DELETE"),
     Tool("sonarr_get_system_status", "sonarr", "read", "GET"),
     Tool("sonarr_list_health_checks", "sonarr", "read", "GET"),
     Tool("sonarr_get_disk_space", "sonarr", "read", "GET"),
     Tool("sonarr_list_logs", "sonarr", "read", "GET"),
     Tool("sonarr_list_missing", "sonarr", "read", "GET"),
     Tool("sonarr_list_cutoff_unmet", "sonarr", "read", "GET")}

Tools == RadarrTools \cup SonarrTools

Services == {"radarr", "sonarr"}

\* config.py lines 46-50: os.environ.get("MCP_READ_ONLY", "").lower() in (...)
read_only(value) ==
    LowerStr(value) \in {<<"1">>, <<"t", "r", "u", "e">>, <<"y", "e", "s">>}

\* main.py lines 18-26: the tools of the configured services are registered
Registered(configured) == {t.name : t \in {u \in Tools : u.service \in configured}}

\* only the tools that delete are disabled
DisabledDeletesOnly(flag) ==
    IF flag THEN {t.name : t \in {u \in Tools : u.method = "DELETE"}} ELSE {}

\* main.py lines 29-31: mcp.disable(tags={"write"}) in read-only mode
Disabled(flag) ==
    IF flag THEN {t.name : t \in {u \in Tools : u.tag = "write"}} ELSE {}

ClientKey(service) == IF service = "radarr" THEN "radarr_client" ELSE "sonarr_client"

\* a client yielded whatever the health check said
LifespanContextUnchecked(configured, healthy) ==
    {ClientKey(s) : s \in configured}

\* server.py lines 20-75: sonarr_lifespan | radarr_lifespan, each yielding its
\* client only when the service is configured and its health check succeeded
LifespanContext(configured, healthy) ==
    {ClientKey(s) : s \in configured \cap healthy}

NoServer ==
    [read_only |-> FALSE, configured |-> {}, healthy |-> {}, registered |-> {},
     disabled |-> {}, ctx |-> {}, served |-> 0]

\* values of MCP_READ_ONLY: unset or empty, "0", "1", "Yes"
ReadOnlyValues == {<<>>, <<"0">>, <<"1">>, <<"Y", "e", "s">>}

QueueIds == {1, 2, 3}

\* ids: the request's list of queue item ids
IdLists == UNION {[1..n -> QueueIds] : n \in 0..MaxIds}

\* what list_queue_details returns: item 1 and item 2, each absent, pending
\* (no download id) or tracked; item 3 is never in the queue
QueueResponses ==
    LET opts(i) == {<<>>, <<QueueItem(i, None)>>, <<QueueItem(i, Some(<<"x">>))>>}
    IN {a \o b : a \in opts(1), b \in opts(2)}

\* how an upstream call ends
CallOutcomes == {"ok", "ApiException"}

(***************************************************************************)
(* State.                                                                  *)
(***************************************************************************)
VARIABLES
    op,        \* the function the invocation ran, "idle" before it
    args,      \* the arguments it was called with
    result,    \* what it returned
    fnCalls,   \* the argument of every call made to summary_fn, in order
    rq,        \* locals of radarr_remove_queue_items: the id classes, the tasks
    log,       \* the upstream calls, as they begin and end
    inv,       \* locals of an adapter tool under way: its steps and position
    server     \* the server: configuration, tool registry, lifespan context

vars == <<op, args, result, fnCalls, rq, log, inv, server>>

NoLocals == [queue_items |-> <<>>, tracked_ids |-> <<>>, pending_ids |-> <<>>,
             unknown_ids |-> <<>>, tasks |-> <<>>]

\* one entry of the upstream log: a call beginning or ending
LogEntry(call, ev, task, outcome, ids, remove_from_client) ==
    [call |-> call, ev |-> ev, task |-> task, outcome |-> outcome, ids |-> ids,
     remove_from_client |-> remove_from_client]

Init ==
    /\ op = "idle"
    /\ args = <<>>
    /\ result = <<>>
    /\ fnCalls = <<>>
    /\ rq = NoLocals
    /\ log = <<>>
    /\ inv = NoInvocation
    /\ server = NoServer

\* one call summarize_item(item, max_fields)
SummarizeItem ==
    /\ op = "idle"
    /\ \E item \in Items, max_fields \in MaxFieldsArgs :
          /\ args' = [item |-> item, max_fields |-> max_fields]
          /\ result' = summarize_item(item, max_fields)
    /\ op' = "summarize_item"
    /\ UNCHANGED <<fnCalls, rq, log, inv, server>>

\* one call summarize_list(items, max_fields, summary_fn, preserve_fields)
SummarizeList ==
    /\ op = "idle"
    /\ \E items \in ItemLists, max_fields \in MaxFieldsArgs,
          summary_fn \in SummaryFns, preserve_fields \in PreserveArgs :
          LET out == summarize_list(items, max_fields, summary_fn, preserve_fields)
          IN /\ args' = [items |-> items, max_fields |-> max_fields,
                         summary_fn |-> summary_fn,
                         preserve_fields |-> preserve_fields]
             /\ result' = out.ret
             /\ fnCalls' = fnCalls \o out.calls
    /\ op' = "summarize_list"
    /\ UNCHANGED <<rq, log, inv, server>>

\* one call grep_filter(items, pattern)
GrepFilter ==
    /\ op = "idle"
    /\ \E items \in ItemLists, pattern \in PatternArgs :
          /\ args' = [items |-> items, pattern |-> pattern]
          /\ result' = grep_filter(items, pattern)
    /\ op' = "grep_filter"
    /\ UNCHANGED <<fnCalls, rq, log, inv, server>>

\* one call of a resolver
Resolve ==
    /\ op = "idle"
    /\ \E resolver \in Resolvers, tok \in Tokens, items \in CandidateLists :
          /\ args' = [resolver |-> resolver, token |-> tok, candidates |-> items]
          /\ result' = CallResolver(resolver, tok, items)
    /\ op' = "resolve"
    /\ UNCHANGED <<fnCalls, rq, log, inv, server>>

\* one call full_detail(item)
FullDetail ==
    /\ op = "idle"
    /\ \E item \in DetailItems :
          /\ args' = [item |-> item]
          /\ result' = full_detail(item)
    /\ op' = "full_detail"
    /\ UNCHANGED <<fnCalls, rq, log, inv, server>>

\* the server configured from the environment, then one call radarr_list_movies
ListMovies ==
    /\ op = "idle"
    /\ \E env \in EnvMaxFieldsArgs, all_movies \in ItemLists, grep \in {None, Some(<<"a">>), Some(<<"[">>)} :
          LET config == [list_summary_max_fields |-> list_summary_max_fields(env)]
              out == radarr_list_movies(config, all_movies, grep)
          IN /\ args' = [env |-> env, config |-> config, all_movies |-> all_movies,
                         grep |-> grep]
             /\ result' = [raised |-> out.raised, error |-> out.error,
                           value |-> out.value]
             /\ fnCalls' = fnCalls \o out.calls
    /\ op' = "radarr_list_movies"
    /\ UNCHANGED <<rq, log, inv, server>>

\* main.py _register_tools, run at import time
RegisterTools ==
    /\ op = "idle"
    /\ \E value \in ReadOnlyValues, configured \in SUBSET Services :
          /\ args' = [MCP_READ_ONLY |-> value, configured |-> configured]
          /\ server' = [NoServer EXCEPT !.read_only = read_only(value),
                                        !.configured = configured,
                                        !.registered = Registered(configured),
                                        !.disabled = Disabled(read_only(value))]
    /\ op' = "registered"
    /\ UNCHANGED <<result, fnCalls, rq, log, inv>>

\* the server starts: both lifespans run their health check and yield
Lifespan ==
    /\ op = "registered"
    /\ \E healthy \in SUBSET server.configured :
          server' = [server EXCEPT !.healthy = healthy,
                                   !.ctx = LifespanContext(server.configured, healthy)]
    /\ op' = "serving"
    /\ UNCHANGED <<args, result, fnCalls, rq, log, inv>>

\* one tool invocation on the running server: the framework refuses a tool
\* that is not registered or is disabled, the client dependency raises when
\* the lifespan context has no client, and otherwise the tool calls upstream
InvokeTool ==
    /\ op = "serving"
    /\ server.served < MaxInvocations
    /\ \E t \in Tools :
          /\ args' = [tool |-> t.name]
          /\ IF t.name \notin server.registered \/ t.name \in server.disabled
             THEN /\ result' = [raised |-> TRUE, exc |-> "NotFoundError",
                                error |-> "unknown tool"]
                  /\ log' = log
             ELSE IF ClientKey(t.service) \notin server.ctx
             THEN /\ result' = [raised |-> TRUE, exc |-> "RuntimeError",
                                error |-> "client not available"]
                  /\ log' = log
             ELSE \E outcome \in ListOutcomes :
                     /\ log' = Append(log, [call |-> t.method, service |-> t.service,
                                            outcome |-> outcome])
                     /\ result' = IF outcome = "ok"
                                  THEN [raised |-> FALSE, exc |-> "", error |-> ""]
                                  ELSE [raised |-> TRUE, exc |-> outcome, error |-> ""]
    /\ server' = [server EXCEPT !.served = server.served + 1]
    /\ UNCHANGED <<op, fnCalls, rq, inv>>

\* one call radarr_lookup_movie(term, tmdb_id, imdb_id)
LookupMovie ==
    /\ op = "idle"
    /\ \E a \in LookupArgs :
          /\ args' = a
          /\ IF LookupInvalid(a.term, a.tmdb_id, a.imdb_id)
             THEN /\ result' = [raised |-> FALSE, exc |-> "", error |-> "invalid_params",
                                value |-> <<>>]
                  /\ log' = log
             ELSE \E outcome \in ListOutcomes, results \in ItemLists :
                     /\ log' = Append(log, LogEntry(LookupCall(a.term, a.tmdb_id, a.imdb_id),
                                                    "end", 0, outcome, <<>>, FALSE))
                     /\ result' = IF outcome # "ok"
                                  THEN [raised |-> TRUE, exc |-> outcome, error |-> "",
                                        value |-> <<>>]
                                  ELSE [raised |-> FALSE, exc |-> "", error |-> "",
                                        value |->
                                           summarize_list(results, DefaultMaxFields,
                                              "None", Some(<<"title", "tmdbId">>)).ret]
    /\ op' = "radarr_lookup_movie"
    /\ UNCHANGED <<fnCalls, rq, inv, server>>

\* a tool is invoked; nothing is sent before its first call
ToolStart ==
    /\ op = "idle"
    /\ \E tool \in AdapterTools :
          \E a \in ToolArgs(tool) :
             /\ args' = [tool |-> tool, a |-> a]
             /\ inv' = [NoInvocation EXCEPT !.tool = tool, !.a = a,
                                            !.steps = Steps(tool, a), !.pc = 1]
    /\ op' = "tool"
    /\ UNCHANGED <<result, fnCalls, rq, log, server>>

\* the tool is about to make the given upstream call
AtCall(call) == op = "tool" /\ inv.steps[inv.pc] = call

\* the tool ends with res
Finish(res) ==
    /\ op' = "tool_done"
    /\ result' = res
    /\ inv' = inv

\* the call went through: the next statement, or the final return
Proceed(locals) ==
    IF inv.pc = Len(inv.steps)
    THEN /\ op' = "tool_done"
         /\ result' = ToolReturn("")
         /\ inv' = locals
    ELSE /\ op' = op
         /\ result' = result
         /\ inv' = [locals EXCEPT !.pc = inv.pc + 1]

\* a call on the entity has ended with outcome
AfterEntityCall(call, outcome) ==
    IF outcome = "ok" THEN Proceed(inv)
    ELSE IF outcome = "NotFoundException" /\ CatchesNotFound(inv.tool, call)
    THEN Finish(ToolReturn("not_found"))
    ELSE Finish(ToolRaise(outcome, <<>>))

\* get_*_by_id
ToolGetById ==
    /\ AtCall("get_by_id")
    /\ \E outcome \in EntityOutcomes :
          /\ log' = Append(log, LogEntry("get_by_id", "end", 0, outcome, <<>>, FALSE))
          /\ AfterEntityCall("get_by_id", outcome)
    /\ UNCHANGED <<args, fnCalls, rq, server>>

\* list_quality_profile, then resolve_quality_profile
ToolListProfiles ==
    /\ AtCall("list_quality_profile")
    /\ \E outcome \in ListOutcomes, profiles \in RefResponses :
          /\ log' = Append(log, LogEntry("list_quality_profile", "end", 0, outcome,
                                         <<>>, FALSE))
          /\ IF outcome # "ok" THEN Finish(ToolRaise(outcome, <<>>))
             ELSE LET r == resolve_quality_profile(inv.a.quality_profile.val, profiles)
                  IN IF r.raised THEN Finish(ToolRaise("ToolError", r.error))
                     ELSE Proceed([inv EXCEPT !.quality_profile_id = r.value])
    /\ UNCHANGED <<args, fnCalls, rq, server>>

\* list_root_folder, then resolve_root_folder and the folder's path
ToolListFolders ==
    /\ AtCall("list_root_folder")
    /\ \E outcome \in ListOutcomes, folders \in RefResponses :
          /\ log' = Append(log, LogEntry("list_root_folder", "end", 0, outcome,
                                         <<>>, FALSE))
          /\ IF outcome # "ok" THEN Finish(ToolRaise(outcome, <<>>))
             ELSE LET r == resolve_root_folder(inv.a.root_folder.val, folders)
                  IN IF r.raised THEN Finish(ToolRaise("ToolError", r.error))
                     ELSE Proceed([inv EXCEPT !.root_folder_path =
                                                  FolderPath(folders, r.value)])
    /\ UNCHANGED <<args, fnCalls, rq, server>>

\* list_tag, then resolve_tag for each tag
ToolListTags ==
    /\ AtCall("list_tag")
    /\ \E outcome \in ListOutcomes, all_tags \in RefResponses :
          /\ log' = Append(log, LogEntry("list_tag", "end", 0, outcome, <<>>, FALSE))
          /\ IF outcome # "ok" THEN Finish(ToolRaise(outcome, <<>>))
             ELSE LET r == ResolveTags(inv.a.tags.val, all_tags, <<>>)
                  IN IF r.raised THEN Finish(ToolRaise("ToolError", r.error))
                     ELSE Proceed([inv EXCEPT !.tag_ids = r.value])
    /\ UNCHANGED <<args, fnCalls, rq, server>>

\* the lookup of an add tool: nothing found is returned as not_found
ToolLookup ==
    /\ AtCall("lookup")
    /\ \E outcome \in ListOutcomes, found \in BOOLEAN :
          /\ log' = Append(log, LogEntry("lookup", "end", 0, outcome, <<>>, FALSE))
          /\ IF outcome # "ok" THEN Finish(ToolRaise(outcome, <<>>))
             ELSE IF ~found THEN Finish(ToolReturn("not_found"))
             ELSE Proceed(inv)
    /\ UNCHANGED <<args, fnCalls, rq, server>>

\* create_*, update_* or delete_*
ToolMutate ==
    /\ \E call \in MutatingCalls :
          /\ AtCall(call)
          /\ \E outcome \in EntityOutcomes :
                /\ log' = Append(log, LogEntry(call, "end", 0, outcome, <<>>, FALSE))
                /\ AfterEntityCall(call, outcome)
    /\ UNCHANGED <<args, fnCalls, rq, server>>

\* lines 93-97: the empty request is answered at once, any other request
\* asks the upstream for the queue
RemoveStart ==
    /\ op = "idle"
    /\ \E ids \in IdLists, blocklist \in BOOLEAN, remove_from_client \in BOOLEAN :
          /\ args' = [ids |-> ids, blocklist |-> blocklist,
                      remove_from_client |-> remove_from_client]
          /\ IF Len(ids) = 0
             THEN /\ result' = [raised |-> FALSE, success |-> FALSE,
                                error |-> "No queue item IDs provided."]
                  /\ op' = "remove_done"
                  /\ log' = log
             ELSE /\ result' = result
                  /\ op' = "remove_fetch"
                  /\ log' = Append(log, LogEntry("list_queue_details", "begin", 0, "",
                                                  <<>>, FALSE))
    /\ UNCHANGED <<fnCalls, rq, inv, server>>

\* lines 97-133 and 143-154: the queue arrives, the ids are classified and the
\* removals created; without a removal to make the response is built at once
RemoveFetched ==
    /\ op = "remove_fetch"
    /\ \E outcome \in CallOutcomes, queue_items \in QueueResponses :
          /\ log' = Append(log, LogEntry("list_queue_details", "end", 0, outcome,
                                          <<>>, FALSE))
          /\ IF outcome # "ok"
             THEN /\ result' = [raised |-> TRUE, exc |-> outcome]
                  /\ op' = "remove_done"
                  /\ rq' = rq
             ELSE LET tracked_ids == IdsOfClass(queue_items, args.ids, "tracked")
                      pending_ids == IdsOfClass(queue_items, args.ids, "pending")
                      unknown_ids == IdsOfClass(queue_items, args.ids, "unknown")
                      tasks == BuildTasks(tracked_ids, pending_ids, args.blocklist,
                                          args.remove_from_client)
                  IN /\ rq' = [queue_items |-> queue_items,
                               tracked_ids |-> tracked_ids,
                               pending_ids |-> pending_ids,
                               unknown_ids |-> unknown_ids, tasks |-> tasks]
                     /\ IF Len(tasks) = 0
                        THEN /\ result' = RemoveResponse(tasks, tracked_ids, pending_ids,
                                                         unknown_ids, args.blocklist)
                             /\ op' = "remove_done"
                        ELSE /\ result' = result
                             /\ op' = "remove_gather"
    /\ UNCHANGED <<args, fnCalls, inv, server>>

\* a worker thread sends the delete_queue_bulk request of task i
TaskBegin(i) ==
    /\ op = "remove_gather"
    /\ i <= Len(rq.tasks)
    /\ rq.tasks[i].st = "created"
    /\ rq' = [rq EXCEPT !.tasks[i].st = "running"]
    /\ log' = Append(log, LogEntry("delete_queue_bulk", "begin", i, "",
                                    rq.tasks[i].ids, rq.tasks[i].remove_from_client))
    /\ UNCHANGED <<op, args, result, fnCalls, inv, server>>

\* the request of task i returns or raises
TaskEnd(i) ==
    /\ op = "remove_gather"
    /\ i <= Len(rq.tasks)
    /\ rq.tasks[i].st = "running"
    /\ \E outcome \in CallOutcomes :
          /\ rq' = [rq EXCEPT !.tasks[i].st = IF outcome = "ok" THEN "ok" ELSE "raised",
                              !.tasks[i].exc = IF outcome = "ok" THEN "" ELSE outcome]
          /\ log' = Append(log, LogEntry("delete_queue_bulk", "end", i, outcome,
                                          rq.tasks[i].ids,
                                          rq.tasks[i].remove_from_client))
    /\ UNCHANGED <<op, args, result, fnCalls, inv, server>>

\* lines 137-154: gather(..., return_exceptions=True) hands back every result
\* once all tasks have finished, and the response is built
RemoveJoin ==
    /\ op = "remove_gather"
    /\ \A i \in 1..Len(rq.tasks) : rq.tasks[i].st \in {"ok", "raised"}
    /\ result' = RemoveResponse(rq.tasks, rq.tracked_ids, rq.pending_ids,
                                rq.unknown_ids, args.blocklist)
    /\ op' = "remove_done"
    /\ UNCHANGED <<args, fnCalls, rq, log, inv, server>>

Next ==
    \/ SummarizeItem
    \/ SummarizeList
    \/ GrepFilter
    \/ Resolve
    \/ FullDetail
    \/ ListMovies
    \/ RegisterTools
    \/ Lifespan
    \/ InvokeTool
    \/ LookupMovie
    \/ ToolStart
    \/ ToolGetById
    \/ ToolListProfiles
    \/ ToolListFolders
    \/ ToolListTags
    \/ ToolLookup
    \/ ToolMutate
    \/ RemoveStart
    \/ RemoveFetched
    \/ \E i \in 1..Len(rq.tasks) : TaskBegin(i)
    \/ \E i \in 1..Len(rq.tasks) : TaskEnd(i)
    \/ RemoveJoin

Spec == Init /\ [][Next]_vars

(***************************************************************************)
(* Claims about summarize_item.                                            *)
(***************************************************************************)
CalledItem == op = "summarize_item"
\* a mapping or a sequence
IsContainer(v) == v.t \in {"list", "dict"}
\* the JSON scalar types: string, number, bool, null
ScalarTypes == {"str", "int", "bool", "null"}
ArgFull == Normalized(args.item)
\* the result without its leading "id" entry
NonIdPart(res) == IF Len(res) > 0 /\ res[1].k = "id" THEN Tail(res) ELSE res

\* C1: for every item and every max_fields >= 1 the summary has at most
\* max_fields keys, the pinned id counted among them.
C1_SizeBound ==
    (CalledItem /\ args.max_fields >= 1) =>
        /\ Len(result) <= args.max_fields
        /\ Cardinality(Keys(result)) <= args.max_fields

\* the budget is exhausted: an id and more scalar fields than slots
C1_Witness ==
    /\ CalledItem /\ args.max_fields >= 1
    /\ HasKey(result, "id")
    /\ Len(ScalarFields(ArgFull)) > args.max_fields - 1
    /\ Len(result) = args.max_fields

\* C2: an item whose normalized field map has an "id" keeps it, with exactly
\* that value, for every max_fields >= 1, whatever its size and the budget.
C2_IdPinned ==
    (CalledItem /\ args.max_fields >= 1 /\ HasKey(ArgFull, "id")) =>
        /\ HasKey(result, "id")
        /\ Lookup(result, "id") = Lookup(ArgFull, "id")

\* the id is the longest field of the item and the budget is one slot
C2_Witness ==
    /\ CalledItem /\ args.max_fields = 1
    /\ HasKey(ArgFull, "id")
    /\ Len(ScalarFields(ArgFull)) >= 1
    /\ \A i \in 1..Len(ArgFull) :
          ArgFull[i].v.t \in ScalarTypes =>
             SerializedLen(ArgFull[i].v) <= SerializedLen(Lookup(ArgFull, "id"))
    /\ result = <<F("id", Lookup(ArgFull, "id"))>>

\* C3: no key of the summary maps to a container, and no container-valued
\* field of the item shows up in the summary at all, for every max_fields.
C3_ScalarOnly ==
    CalledItem =>
        /\ \A i \in 1..Len(result) : result[i].v.t \in ScalarTypes
        /\ \A i \in 1..Len(ArgFull) :
              IsContainer(ArgFull[i].v) => ~HasKey(result, ArgFull[i].k)

\* a container field is left out although the budget had room for it
C3_Witness ==
    /\ CalledItem
    /\ \E i \in 1..Len(ArgFull) : IsContainer(ArgFull[i].v)
    /\ Len(result) >= 1
    /\ Len(result) < args.max_fields

\* position of scalar field i in the ascending stable order by size
SizeRank(S, i) ==
    1 + Cardinality({j \in 1..Len(S) :
            \/ SerializedLen(S[j].v) < SerializedLen(S[i].v)
            \/ (SerializedLen(S[j].v) = SerializedLen(S[i].v) /\ j < i)})

\* the scalar fields ascending by size, ties in original field order
StableBySize(S) == [r \in 1..Len(S) |-> S[CHOOSE i \in 1..Len(S) : SizeRank(S, i) = r]]

\* budget of the claim: max_fields - 1 with an id, max_fields without
Budget(full, max_fields) ==
    IF IdPresent(IdValue(full)) THEN max_fields - 1 ELSE max_fields

\* the first b entries of a sequence: none when b <= 0, all when b > Len
FirstN(seq, b) == SubSeq(seq, 1, IF b < 0 THEN 0 ELSE IF b > Len(seq) THEN Len(seq) ELSE b)

\* C4: the non-id part of the summary is exactly the first `budget` entries of
\* the non-id scalar fields sorted ascending by serialized length with a stable
\* sort, placed after "id"; the budget is max_fields - 1 with an id and
\* max_fields without.
C4_FirstBudgetEntries ==
    CalledItem =>
        LET sorted == StableBySize(ScalarFields(ArgFull))
        IN /\ NonIdPart(result) = FirstN(sorted, Budget(ArgFull, args.max_fields))
           /\ \A i \in 2..Len(result) : result[i].k # "id"

\* C30: for every max_fields <= 0 the summary has no key other than "id" and
\* no more keys than the summary of the same item for max_fields = 1.
C30_NothingBelowOne ==
    (CalledItem /\ args.max_fields <= 0) =>
        /\ Keys(result) \subseteq {"id"}
        /\ Len(result) <= Len(summarize_item(args.item, 1))

(***************************************************************************)
(* Claims about summarize_list.                                            *)
(***************************************************************************)
CalledList == op = "summarize_list"
\* the names in preserve_fields, none for None
PreserveSet ==
    IF args.preserve_fields.some
    THEN {args.preserve_fields.val[i] : i \in 1..Len(args.preserve_fields.val)}
    ELSE {}
ItemFull(i) == Normalized(args.items[i])

C6_Original ==
    (CalledList /\ args.max_fields >= 1) =>
        \A i \in 1..Len(result.items) : Len(result.items[i]) <= args.max_fields

\* C6 amended: for max_fields >= 1 at most max_fields keys of an item summary
\* are not named in preserve_fields, and the summary has at most max_fields
\* keys plus one for each preserve_fields name that is a field of the item;
\* so the limit max_fields holds when preserve_fields is None or empty.
C6_BoundUpToPreserved ==
    (CalledList /\ args.max_fields >= 1) =>
        \A i \in 1..Len(result.items) :
            /\ Cardinality(Keys(result.items[i]) \ PreserveSet) <= args.max_fields
            /\ Len(result.items[i]) <=
                  args.max_fields + Cardinality(PreserveSet \cap Keys(ItemFull(i)))
            /\ PreserveSet = {} => Len(result.items[i]) <= args.max_fields

\* a preserved field pushes a summary past max_fields, while another summary
\* of the same response fills its max_fields slots by size alone
C6_Witness ==
    /\ CalledList /\ args.max_fields >= 1
    /\ \E i \in 1..Len(result.items) : Len(result.items[i]) > args.max_fields
    /\ \E i \in 1..Len(result.items) :
          /\ Len(result.items[i]) = args.max_fields
          /\ Keys(result.items[i]) \cap PreserveSet = {}
          /\ Len(args.items[i]) > args.max_fields

\* C7 as stated: every item summary of a list summary maps every key to a
\* scalar, whatever preserve_fields is passed.
C7_Original ==
    CalledList =>
        \A i \in 1..Len(result.items) :
            \A j \in 1..Len(result.items[i]) : result.items[i][j].v.t \in ScalarTypes

\* C7 amended: every key of an item summary that is not named in
\* preserve_fields maps to a scalar; a key maps to a container only when it is
\* named in preserve_fields, and then to the item's full normalized value.
C7_ScalarUnlessPreserved ==
    CalledList =>
        \A i \in 1..Len(result.items) :
            \A j \in 1..Len(result.items[i]) :
                LET e == result.items[i][j]
                IN \/ e.v.t \in ScalarTypes
                   \/ /\ e.k \in PreserveSet
                      /\ HasKey(ItemFull(i), e.k)
                      /\ e.v = Lookup(ItemFull(i), e.k)

\* a preserved container sits next to fields chosen by size, and a container
\* that is not preserved is left out
C7_Witness ==
    /\ CalledList
    /\ \E i \in 1..Len(result.items) :
          /\ \E j \in 1..Len(result.items[i]) : IsContainer(result.items[i][j].v)
          /\ \E j \in 1..Len(result.items[i]) :
                result.items[i][j].k \notin PreserveSet \cup {"id"}
    /\ \E i \in 1..Len(result.items) :
          \E j \in 1..Len(ItemFull(i)) :
              /\ IsContainer(ItemFull(i)[j].v)
              /\ ~HasKey(result.items[i], ItemFull(i)[j].k)

\* C8: every preserve_fields name that is a field of the item is in its
\* summary with the full normalized value, and the summary begins with the
\* size-bounded selection unchanged (the id and every selected field).
C8_PreserveOverride ==
    CalledList =>
        \A i \in 1..Len(result.items) :
            LET basic == summarize_item(args.items[i], args.max_fields)
                res == result.items[i]
            IN /\ \A f \in PreserveSet :
                    HasKey(ItemFull(i), f) =>
                        HasKey(res, f) /\ Lookup(res, f) = Lookup(ItemFull(i), f)
               /\ Len(res) >= Len(basic)
               /\ SubSeq(res, 1, Len(basic)) = basic
               /\ \A j \in (Len(basic) + 1)..Len(res) : res[j].k \in PreserveSet

\* a field the size heuristic dropped is added behind a full selection that
\* starts with the id
C8_Witness ==
    /\ CalledList /\ args.max_fields >= 2
    /\ \E i \in 1..Len(result.items) :
          LET basic == summarize_item(args.items[i], args.max_fields)
          IN /\ Len(basic) = args.max_fields
             /\ basic[1].k = "id"
             /\ Len(result.items[i]) > Len(basic)

\* C9: a supplied summary_fn is invoked exactly once, with the input
\* collection itself, and every entry it returns is in summary next to total;
\* without summary_fn the summary is exactly {total: len(items)}.
C9_AggregateOverFullItems ==
    CalledList =>
        IF args.summary_fn # "None"
        THEN /\ fnCalls = <<args.items>>
             /\ HasKey(result.summary, "total")
             /\ LET ret == CallSummaryFn(args.summary_fn, args.items)
                IN \A j \in 1..Len(ret) :
                      /\ HasKey(result.summary, ret[j].k)
                      /\ Lookup(result.summary, ret[j].k) = ret[j].v
        ELSE /\ fnCalls = <<>>
             /\ result.summary = <<F("total", IntV(Len(args.items)))>>

\* the aggregate counts a field that the per-item summaries dropped
C9_Witness ==
    /\ CalledList
    /\ args.summary_fn = "_radarr_movie_summary"
    /\ Len(fnCalls) = 1
    /\ HasKey(result.summary, "downloaded")
    /\ Lookup(result.summary, "downloaded").n >= 1
    /\ \A i \in 1..Len(result.items) : ~HasKey(result.items[i], "hasFile")

(***************************************************************************)
(* Claims about grep_filter.                                               *)
(***************************************************************************)
CalledGrep == op = "grep_filter"
MetaChars == {".", "^", "$", "*", "["}
IsLiteral(pattern) == \A i \in 1..Len(pattern) : pattern[i] \notin MetaChars

\* the literal occurs in the text, letter case aside
ContainsCI(text, lit) ==
    \E j \in 0..(Len(text) - Len(lit)) :
        \A i \in 1..Len(lit) : Lower(text[j + i]) = Lower(lit[i])

\* the members of seq at the positions where keep holds, in order
Subsequence(seq, keep) ==
    LET idx == SelectIdx(keep, 1, Len(seq))
    IN [j \in 1..Len(idx) |-> seq[idx[j]]]

\* C10: for a non-null pattern that compiles, grep_filter returns the
\* order-preserving subsequence of the items whose whole-object serialization
\* is matched somewhere by the pattern; nothing is added, duplicated,
\* reordered or altered.
C10_FilterIsMatchingSubsequence ==
    (CalledGrep /\ args.pattern.some /\ CompileError(args.pattern.val) = "") =>
        LET pat == args.pattern.val
            text(i) == JsonEncode(DictV(args.items[i]))
            found == [i \in 1..Len(args.items) |->
                         \E j \in 1..(Len(text(i)) + 1) : MatchHere(pat, 1, text(i), j)]
            foundLit == [i \in 1..Len(args.items) |-> ContainsCI(text(i), pat)]
        IN /\ ~result.raised
           /\ result.value = Subsequence(args.items, found)
           /\ IsLiteral(pat) => result.value = Subsequence(args.items, foundLit)

\* a literal pattern found only inside a nested container, in another letter
\* case, keeps the second of two items
C10_Witness ==
    /\ CalledGrep
    /\ args.pattern = Some(<<"B", "1">>)
    /\ Len(args.items) = 2
    /\ Len(result.value) = 1
    /\ result.value[1] = args.items[2]
    /\ ~ContainsCI(JsonEncode(Lookup(args.items[2], "title")), <<"B", "1">>)

\* C11: grep_filter(C, None) returns C unchanged, the same elements in the
\* same order, and serializes no item.
C11_NonePatternIsIdentity ==
    (CalledGrep /\ ~args.pattern.some) =>
        /\ ~result.raised
        /\ result.value = args.items
        /\ result.examined = 0

\* a collection of two different items comes back as it went in
C11_Witness ==
    /\ CalledGrep /\ ~args.pattern.some
    /\ Len(args.items) = 2
    /\ args.items[1] # args.items[2]
    /\ result.value = args.items

\* the pattern is one the regex compiler rejects
DoesNotCompile(pattern) ==
    \/ \E i \in 1..Len(pattern) : pattern[i] = "["
    \/ \E i \in 1..Len(pattern) :
          pattern[i] = "*" /\ (i = 1 \/ pattern[i - 1] \in {"^", "$", "*"})

\* C12: for every collection, empty or not, a pattern that fails to compile
\* makes grep_filter fail with the invalid-pattern error before any item is
\* examined, and the error carries the pattern and the compiler's error text.
C12_InvalidPatternFails ==
    (CalledGrep /\ args.pattern.some /\ DoesNotCompile(args.pattern.val)) =>
        /\ result.raised
        /\ result.examined = 0
        /\ result.value = <<>>
        /\ result.error[1] = "Invalid grep pattern"
        /\ result.error[2] = args.pattern.val
        /\ result.error[3] \in {"unterminated character set",
                                "nothing to repeat", "multiple repeat"}

\* an unclosed "[" behind a character every item contains, on a non-empty
\* collection
C12_Witness ==
    /\ CalledGrep
    /\ args.pattern = Some(<<"a", "[">>)
    /\ Len(args.items) >= 1
    /\ result.raised
    /\ result.error[3] = "unterminated character set"

Upper(c) == IF \E i \in 1..26 : LowerCase[i] = c
            THEN UpperCase[CHOOSE i \in 1..26 : LowerCase[i] = c]
            ELSE c

\* the patterns that differ from p in letter case only
CaseVariants(p) ==
    {q \in [1..Len(p) -> {Lower(p[i]) : i \in 1..Len(p)} \cup {Upper(p[i]) : i \in 1..Len(p)}] :
        \A i \in 1..Len(p) : Lower(q[i]) = Lower(p[i])}

\* C13: with a literal pattern every item whose serialization contains the
\* pattern's text in any mixture of letter case is retained, and every pattern
\* that differs from it in letter case only selects the same items.
C13_CaseInsensitive ==
    (CalledGrep /\ args.pattern.some /\ IsLiteral(args.pattern.val)) =>
        LET pat == args.pattern.val
        IN /\ \A i \in 1..Len(args.items) :
                ContainsCI(JsonEncode(DictV(args.items[i])), pat) =>
                    \E j \in 1..Len(result.value) : result.value[j] = args.items[i]
           /\ \A q \in CaseVariants(pat) :
                grep_filter(args.items, Some(q)).value = result.value

\* an upper-case pattern letter retains an item that has the letter in lower
\* case only, and drops another item
C13_Witness ==
    /\ CalledGrep
    /\ args.pattern = Some(<<"B", "1">>)
    /\ Len(result.value) = 1
    /\ Len(args.items) = 2
    /\ \A j \in 1..(Len(JsonEncode(DictV(result.value[1]))) - 1) :
          ~(JsonEncode(DictV(result.value[1]))[j] = "B"
            /\ JsonEncode(DictV(result.value[1]))[j + 1] = "1")

\* C14: filtering is idempotent: filtering the result again with the same
\* compilable pattern returns the result, same elements in the same order.
C14_Idempotent ==
    (CalledGrep /\ ~result.raised) =>
        LET again == grep_filter(result.value, args.pattern)
        IN ~again.raised /\ again.value = result.value

\* a filter that dropped one of two items and kept the other
C14_Witness ==
    /\ CalledGrep /\ args.pattern.some /\ ~result.raised
    /\ Len(args.items) = 2
    /\ Len(result.value) = 1
    /\ grep_filter(result.value, args.pattern).value = result.value

(***************************************************************************)
(* Claims about the resolvers.  A candidate without a name is compared and *)
(* searched as the empty text.                                             *)
(***************************************************************************)
CalledResolve == op = "resolve"
Digits == {"0", "1", "2", "3", "4", "5", "6", "7", "8", "9"}
DigitValue(c) == CHOOSE d \in 0..9 : DigitChars[d + 1] = c

\* the token is an integer or a string of digits
NumericTok(tok) ==
    tok.isInt \/ (Len(tok.s) > 0 /\ \A i \in 1..Len(tok.s) : tok.s[i] \in Digits)

RECURSIVE Pow10(_)
Pow10(e) == IF e = 0 THEN 1 ELSE 10 * Pow10(e - 1)

RECURSIVE DecimalSum(_, _)
\* the sum of digit * 10^place over the places from i on
DecimalSum(cs, i) ==
    IF i > Len(cs) THEN 0
    ELSE DigitValue(cs[i]) * Pow10(Len(cs) - i) + DecimalSum(cs, i + 1)

\* the number a numeric token denotes
Denoted(tok) == IF tok.isInt THEN tok.n ELSE DecimalSum(tok.s, 1)

CandName(c) == IF c.name.some THEN c.name.val ELSE <<>>
Folded(cs) == [i \in 1..Len(cs) |-> Lower(cs[i])]
\* candidate i is named like the token, letter case aside
EqualsName(i) == Folded(CandName(args.candidates[i])) = Folded(args.token.s)
\* the name or path of candidate i contains the token, letter case aside
ContainsToken(i) == ContainsCI(CandName(args.candidates[i]), args.token.s)
\* the comparison the called resolver makes
Matching(i) ==
    IF args.resolver = "resolve_root_folder" THEN ContainsToken(i) ELSE EqualsName(i)
MatchingIdx == {i \in 1..Len(args.candidates) : Matching(i)}
\* "<id>: <name>" of a candidate
IdNamePair(c) ==
    IntChars(c.id) \o <<":", " ">>
    \o (IF c.name.some THEN c.name.val ELSE <<"N", "o", "n", "e">>)

\* C15: for an integer n or a digit string denoting n every resolver returns n
\* if and only if some candidate has identifier n and fails with NotFound
\* otherwise, whatever the names, labels and paths of the candidates are.
C15_NumericPassthrough ==
    (CalledResolve /\ NumericTok(args.token)) =>
        LET n == Denoted(args.token)
        IN IF \E i \in 1..Len(args.candidates) : args.candidates[i].id = n
           THEN ~result.raised /\ result.value = n
           ELSE /\ result.raised
                /\ result.error.kind = "id_not_found"
                /\ result.error.target = n

\* the digit string "1" is the name of a candidate, no candidate has
\* identifier 1, and the call fails
C15_Witness ==
    /\ CalledResolve
    /\ args.token = StrTok(<<"1">>)
    /\ \E i \in 1..Len(args.candidates) : args.candidates[i].name = Some(<<"1">>)
    /\ result.raised
    /\ result.error.kind = "id_not_found"

\* C16: for a non-numeric token, when exactly one candidate's name or label
\* equals the token case-insensitively, resolve_quality_profile and
\* resolve_tag return that candidate's identifier, and every token that
\* differs in letter case only resolves to the same identifier.
C16_ExactNameMatch ==
    (/\ CalledResolve /\ ~NumericTok(args.token)
     /\ args.resolver \in {"resolve_quality_profile", "resolve_tag"}
     /\ Cardinality({i \in 1..Len(args.candidates) : EqualsName(i)}) = 1) =>
        LET i == CHOOSE j \in 1..Len(args.candidates) : EqualsName(j)
        IN /\ ~result.raised
           /\ result.value = args.candidates[i].id
           /\ \A q \in CaseVariants(args.token.s) :
                CallResolver(args.resolver, StrTok(q), args.candidates) = result

\* an upper-case token resolves to the candidate named in lower case although
\* another candidate's name contains the token
C16_Witness ==
    /\ CalledResolve
    /\ args.resolver = "resolve_tag"
    /\ args.token = StrTok(<<"A">>)
    /\ ~result.raised
    /\ \E i \in 1..Len(args.candidates) :
          /\ args.candidates[i].id = result.value
          /\ args.candidates[i].name = Some(<<"a">>)
    /\ \E i \in 1..Len(args.candidates) :
          /\ ContainsToken(i)
          /\ ~EqualsName(i)

\* C17: whenever a non-numeric token matches more than one candidate, the
\* resolver throws Ambiguous, lists every conflicting candidate and tells the
\* caller to use the numeric id; it returns no identifier.
C17_AmbiguousThrows ==
    (CalledResolve /\ ~NumericTok(args.token) /\ Cardinality(MatchingIdx) > 1) =>
        /\ result.raised
        /\ result.error.kind = "ambiguous"
        /\ result.error.advice = "Use the numeric ID instead."
        /\ \A i \in MatchingIdx :
              \E j \in 1..Len(result.error.listed) :
                  result.error.listed[j] = IdNamePair(args.candidates[i])
        /\ Len(result.error.listed) = Cardinality(MatchingIdx)

\* two candidates conflict and a third one, which does not match, is not
\* listed
C17_Witness ==
    /\ CalledResolve /\ ~NumericTok(args.token)
    /\ Len(args.candidates) = 3
    /\ Cardinality(MatchingIdx) = 2
    /\ Cardinality({args.candidates[i].id : i \in 1..3}) = 3
    /\ result.raised
    /\ Len(result.error.listed) = 2

\* C18: whenever a non-numeric token matches no candidate, the resolver throws
\* NotFound and the error enumerates all candidates as "<id>: <name>" pairs in
\* candidate order.
C18_NotFoundListsAll ==
    (CalledResolve /\ ~NumericTok(args.token) /\ MatchingIdx = {}) =>
        /\ result.raised
        /\ result.error.kind = "no_match"
        /\ result.error.token = args.token.s
        /\ result.error.listed =
              [i \in 1..Len(args.candidates) |-> IdNamePair(args.candidates[i])]

\* three different candidates, none matching, all listed
C18_Witness ==
    /\ CalledResolve /\ ~NumericTok(args.token)
    /\ Len(args.candidates) = 3
    /\ Cardinality({args.candidates[i] : i \in 1..3}) = 3
    /\ MatchingIdx = {}
    /\ result.raised
    /\ Len(result.error.listed) = 3

\* C19: for a non-numeric token resolve_root_folder returns the identifier of
\* a folder if and only if that folder is the only candidate whose path
\* contains the token as a case-insensitive substring; with no such folder it
\* fails NotFound and with two or more Ambiguous.
C19_RootFolderSubstring ==
    (CalledResolve /\ ~NumericTok(args.token)
     /\ args.resolver = "resolve_root_folder") =>
        LET hits == {i \in 1..Len(args.candidates) : ContainsToken(i)}
        IN /\ Cardinality(hits) = 1 =>
                ~result.raised
                /\ result.value = args.candidates[CHOOSE i \in hits : TRUE].id
           /\ Cardinality(hits) = 0 => result.raised /\ result.error.kind = "no_match"
           /\ Cardinality(hits) > 1 => result.raised /\ result.error.kind = "ambiguous"
           /\ ~result.raised => Cardinality(hits) = 1

\* a lower-case part of a path, shorter than the path, picks the one folder
\* whose path has it in upper case
C19_Witness ==
    /\ CalledResolve
    /\ args.resolver = "resolve_root_folder"
    /\ args.token = StrTok(<<"a", "b">>)
    /\ Len(args.candidates) >= 2
    /\ ~result.raised
    /\ result.value = 4


(***************************************************************************)
(* Claims about radarr_remove_queue_items.                                 *)
(***************************************************************************)
\* the invocation is under way or has returned with both classes present
BothClasses ==
    /\ op \in {"remove_gather", "remove_done"}
    /\ Len(rq.tracked_ids) > 0
    /\ Len(rq.pending_ids) > 0

Finished(task) == task.st \in {"ok", "raised"}

\* positions of the log where the removal call of task i begins or ends
LogPos(i, ev) ==
    {k \in 1..Len(log) : log[k].call = "delete_queue_bulk"
                         /\ log[k].task = i /\ log[k].ev = ev}

\* the errors of the response, empty when it reports None
ReportedErrors == IF result.errors.some THEN result.errors.val ELSE <<>>

\* number of failure entries of the response labelled with cls
FailureEntries(cls) ==
    Cardinality({j \in 1..Len(ReportedErrors) :
                    ReportedErrors[j].kind = "failed"
                    /\ ReportedErrors[j].which = cls})

\* C20: with both tracked and pending ids present there are two removal calls,
\* the tracked one and the pending one; a call that has not finished can still
\* take its next step whatever the other call did; the invocation returns only
\* after both calls have begun and finished, each exactly once; and the
\* response holds exactly one failure entry labelled "tracked" if the tracked
\* call raised and none otherwise, and likewise for "pending".
C20_BranchesIndependent ==
    BothClasses =>
        /\ Len(rq.tasks) = 2
        /\ rq.tasks[1].ids = rq.tracked_ids
        /\ rq.tasks[2].ids = rq.pending_ids
        /\ op = "remove_gather" =>
              \A i \in 1..2 :
                 /\ rq.tasks[i].st = "created" => ENABLED TaskBegin(i)
                 /\ rq.tasks[i].st = "running" => ENABLED TaskEnd(i)
        /\ op = "remove_done" =>
              /\ ~result.raised
              /\ \A i \in 1..2 :
                    /\ Finished(rq.tasks[i])
                    /\ Cardinality(LogPos(i, "begin")) = 1
                    /\ Cardinality(LogPos(i, "end")) = 1
              /\ FailureEntries("tracked") = IF rq.tasks[1].st = "raised" THEN 1 ELSE 0
              /\ FailureEntries("pending") = IF rq.tasks[2].st = "raised" THEN 1 ELSE 0

\* the pending call raised while the tracked call was still in flight, the
\* tracked call then succeeded, and the response has the one pending entry
C20_Witness ==
    /\ BothClasses
    /\ op = "remove_done"
    /\ rq.tasks[1].st = "ok"
    /\ rq.tasks[2].st = "raised"
    /\ \E b1 \in LogPos(1, "begin"), e1 \in LogPos(1, "end"),
          b2 \in LogPos(2, "begin"), e2 \in LogPos(2, "end") :
             b1 < b2 /\ b2 < e2 /\ e2 < e1
    /\ FailureEntries("pending") = 1
    /\ FailureEntries("tracked") = 0


\* the invocation has returned a response for a non-empty request
Responded ==
    /\ op = "remove_done"
    /\ Len(args.ids) > 0
    /\ ~result.raised

\* the class of a queue item id in the queue the upstream returned
InQueue(id) == \E k \in 1..Len(rq.queue_items) : rq.queue_items[k].id = id

HasDownload(id) ==
    \E k \in 1..Len(rq.queue_items) :
       /\ rq.queue_items[k].id = id
       /\ rq.queue_items[k].download_id.some
       /\ rq.queue_items[k].download_id.val # <<>>

\* the entries of seq that satisfy keep, in order: sub is that subsequence
IsFiltered(sub, seq, keep(_)) ==
    \E f \in [1..Len(sub) -> 1..Len(seq)] :
       /\ \A a, b \in 1..Len(sub) : a < b => f[a] < f[b]
       /\ \A a \in 1..Len(sub) : sub[a] = seq[f[a]]
       /\ \A k \in 1..Len(seq) : keep(seq[k]) <=> \E a \in 1..Len(sub) : f[a] = k

\* the removal requests the upstream received
DeleteCalls ==
    {k \in 1..Len(log) : log[k].call = "delete_queue_bulk" /\ log[k].ev = "begin"}

UnknownEntries ==
    {j \in 1..Len(ReportedErrors) : ReportedErrors[j].kind = "unknown"}

\* C21: once the invocation has responded, the tracked, pending and unknown
\* ids are the requested ids that are in the queue with a download id, in the
\* queue without one, and not in the queue; the upstream received one removal
\* with the tracked ids and the caller's remove_from_client if there are
\* tracked ids, one removal with the pending ids and remove_from_client false
\* if there are pending ids, and no other removal; the unknown ids are in no
\* removal and are reported in one errors entry.
C21_ThreeClasses ==
    Responded =>
        LET isTracked(id) == InQueue(id) /\ HasDownload(id)
            isPending(id) == InQueue(id) /\ ~HasDownload(id)
            isUnknown(id) == ~InQueue(id)
            sent(ids, flag) ==
                {k \in DeleteCalls : log[k].ids = ids /\ log[k].remove_from_client = flag}
        IN /\ IsFiltered(rq.tracked_ids, args.ids, isTracked)
           /\ IsFiltered(rq.pending_ids, args.ids, isPending)
           /\ IsFiltered(rq.unknown_ids, args.ids, isUnknown)
           /\ Cardinality(sent(rq.tracked_ids, args.remove_from_client)) =
                 IF rq.tracked_ids # <<>> THEN 1 ELSE 0
           /\ Cardinality(sent(rq.pending_ids, FALSE)) =
                 IF rq.pending_ids # <<>> THEN 1 ELSE 0
           /\ Cardinality(DeleteCalls) =
                 (IF rq.tracked_ids # <<>> THEN 1 ELSE 0)
                 + (IF rq.pending_ids # <<>> THEN 1 ELSE 0)
           /\ \A k \in DeleteCalls : \A a \in 1..Len(log[k].ids) : InQueue(log[k].ids[a])
           /\ Cardinality(UnknownEntries) = IF rq.unknown_ids # <<>> THEN 1 ELSE 0
           /\ \A j \in UnknownEntries : ReportedErrors[j].ids = rq.unknown_ids

\* a pending id and an unknown id requested with remove_from_client true: the
\* one removal carries the pending id with remove_from_client false
C21_Witness ==
    /\ Responded
    /\ args.remove_from_client
    /\ rq.tracked_ids = <<>>
    /\ rq.pending_ids # <<>>
    /\ rq.unknown_ids # <<>>
    /\ \A k \in DeleteCalls : ~log[k].remove_from_client
    /\ Cardinality(DeleteCalls) = 1
    /\ UnknownEntries # {}


\* the removal requests with the given ids that ended without an error
CompletedCalls(ids) ==
    {k \in 1..Len(log) : /\ log[k].call = "delete_queue_bulk"
                         /\ log[k].ev = "end"
                         /\ log[k].outcome = "ok"
                         /\ log[k].ids = ids}

\* C28: once the invocation has responded, tracked_removed is the number of
\* tracked ids if the tracked removal completed without error and 0 otherwise,
\* pending_removed likewise for the pending removal, and success is true only
\* if some removal completed without error.
C28_ReflectsRemoval ==
    Responded =>
        /\ result.tracked_removed =
              IF rq.tracked_ids # <<>> /\ CompletedCalls(rq.tracked_ids) # {}
              THEN Len(rq.tracked_ids) ELSE 0
        /\ result.pending_removed =
              IF rq.pending_ids # <<>> /\ CompletedCalls(rq.pending_ids) # {}
              THEN Len(rq.pending_ids) ELSE 0
        /\ result.success =>
              \E k \in 1..Len(log) : /\ log[k].call = "delete_queue_bulk"
                                     /\ log[k].ev = "end"
                                     /\ log[k].outcome = "ok"


(***************************************************************************)
(* Claims about the normalizer and full_detail.                            *)
(***************************************************************************)
CalledDetail == op = "full_detail"

AllDigits(cs) == \A i \in 1..Len(cs) : cs[i] \in Digits

\* cs is YYYY-MM-DD for the day ymd = 10000 * year + 100 * month + day
IsIsoDate(cs, ymd) ==
    /\ Len(cs) = 10
    /\ cs[5] = "-" /\ cs[8] = "-"
    /\ AllDigits(SubSeq(cs, 1, 4)) /\ AllDigits(SubSeq(cs, 6, 7))
    /\ AllDigits(SubSeq(cs, 9, 10))
    /\ 10000 * DecimalSum(SubSeq(cs, 1, 4), 1) + 100 * DecimalSum(SubSeq(cs, 6, 7), 1)
       + DecimalSum(SubSeq(cs, 9, 10), 1) = ymd

\* cs is YYYY-MM-DDTHH:MM:SS for the day ymd and the time digits hms
IsIsoDateTime(cs, ymd, hms) ==
    /\ Len(cs) = 19
    /\ IsIsoDate(SubSeq(cs, 1, 10), ymd)
    /\ cs[11] = "T" /\ cs[14] = ":" /\ cs[17] = ":"
    /\ SubSeq(cs, 12, 13) \o SubSeq(cs, 15, 16) \o SubSeq(cs, 18, 19) = hms

\* out is the tree in with each date leaf replaced by its ISO string
RECURSIVE IsNormalOf(_, _)
IsNormalOf(out, in) ==
    CASE in.t = "date" -> out = StrV(out.s) /\ IsIsoDate(out.s, in.n)
      [] in.t = "datetime" -> out = StrV(out.s) /\ IsIsoDateTime(out.s, in.n, in.s)
      [] IsContainer(in) ->
            /\ out.t = in.t /\ out.n = in.n /\ out.s = in.s
            /\ Len(out.kids) = Len(in.kids)
            /\ \A i \in 1..Len(in.kids) :
                  /\ out.kids[i].k = in.kids[i].k
                  /\ IsNormalOf(out.kids[i].v, in.kids[i].v)
      [] OTHER -> out = in

RECURSIVE OnlyJsonLeaves(_)
OnlyJsonLeaves(v) ==
    IF IsContainer(v) THEN \A i \in 1..Len(v.kids) : OnlyJsonLeaves(v.kids[i].v)
    ELSE v.t \in ScalarTypes

\* a date or date-time somewhere below v
RECURSIVE HasDateBelow(_)
HasDateBelow(v) ==
    IF IsContainer(v) THEN \E i \in 1..Len(v.kids) : HasDateBelow(v.kids[i].v)
    ELSE v.t \in {"date", "datetime"}

\* C27: full_detail(item) is the item's field map with the same keys, lengths
\* and order at every depth, each date or date-time leaf replaced by its
\* ISO-8601 string and every other scalar unchanged, so that its leaves are
\* strings, numbers, bools and nulls only; no field is removed.
C27_NormalizedTree ==
    CalledDetail =>
        /\ IsNormalOf(DictV(result), DictV(args.item))
        /\ OnlyJsonLeaves(DictV(result))
        /\ Len(result) = Len(args.item)

\* a date inside a sequence inside a sequence inside a mapping is converted
C27_Witness ==
    /\ CalledDetail
    /\ \E i \in 1..Len(args.item) :
          LET v == args.item[i].v
          IN /\ v.t = "dict"
             /\ \E j \in 1..Len(v.kids) :
                   /\ v.kids[j].v.t = "list"
                   /\ \E k \in 1..Len(v.kids[j].v.kids) :
                         /\ v.kids[j].v.kids[k].v.t = "list"
                         /\ HasDateBelow(v.kids[j].v.kids[k].v)
    /\ \E i \in 1..Len(args.item) : args.item[i].v.t = "datetime"
    /\ OnlyJsonLeaves(DictV(result))


(***************************************************************************)
(* Claims about the list tools and the configuration.                      *)
(***************************************************************************)
\* the limit the environment asks for: its number, 10 when unset
EnvLimit == IF args.env.some THEN DecimalSum(args.env.val, 1) ELSE 10

\* C26: every item summary a list tool returns has at most n fields when
\* MCP_LIST_SUMMARY_MAX_FIELDS is n, and at most 10 when it is unset.
C26_ConfiguredLimit ==
    (op = "radarr_list_movies" /\ ~result.raised) =>
        \A i \in 1..Len(result.value.items) :
           Len(result.value.items[i]) <= EnvLimit


(***************************************************************************)
(* Claims about the adapter tools.                                         *)
(***************************************************************************)
InTool == op \in {"tool", "tool_done"}

\* the calls that fetch, update or delete one entity by its id
ByIdCalls == {"get_by_id", "update", "delete"}

\* the tools that fetch, update or delete a single entity by id
ByIdTools ==
    {"radarr_describe_movie", "radarr_update_movie", "sonarr_update_series",
     "radarr_update_collection", "radarr_delete_movie", "radarr_remove_blocklist_item"}

\* positions of the log where the upstream answered 404 to a call by id
NotFoundAt ==
    {k \in 1..Len(log) : log[k].call \in ByIdCalls /\ log[k].outcome = "NotFoundException"}

\* C22: in a tool that fetches, updates or deletes one entity by id, an
\* upstream 404 is the last upstream call of the invocation, and the
\* invocation returns {error: "not_found", message} instead of raising.
C22_NotFoundReturned ==
    (InTool /\ inv.tool \in ByIdTools /\ NotFoundAt # {}) =>
        /\ NotFoundAt = {Len(log)}
        /\ op = "tool_done"
        /\ ~result.raised
        /\ result.error = "not_found"

\* positions of the log where a create or update call was made
WritesAt == {k \in 1..Len(log) : log[k].call \in {"create", "update"}}

\* a resolver has thrown NotFound or Ambiguous out of the invocation
ResolutionFailed == op = "tool_done" /\ result.raised /\ result.exc = "ToolError"

\* the list calls whose answer a resolver reads
ResolutionCalls == {"list_quality_profile", "list_root_folder", "list_tag"}

\* C29: in the add and update tools every list call that feeds a resolver
\* comes before the create or update call, which is the last upstream call;
\* and when a resolver throws, the invocation has ended without any create
\* or update call.
C29_ResolveBeforeWrite ==
    (InTool /\ inv.tool \in AddTools \cup UpdateTools) =>
        /\ \A w \in WritesAt :
              /\ w = Len(log)
              /\ \A k \in 1..Len(inv.steps) :
                    inv.steps[k] \in ResolutionCalls =>
                       \E j \in 1..(w - 1) : log[j].call = inv.steps[k]
        /\ ResolutionFailed =>
              /\ WritesAt = {}
              /\ result.cause.kind \in {"no_match", "ambiguous", "id_not_found"}

\* radarr_update_movie fetched the movie and resolved the quality profile,
\* then a tag was not found: three calls were made and none is an update
C29_Witness ==
    /\ ResolutionFailed
    /\ inv.tool = "radarr_update_movie"
    /\ inv.quality_profile_id = 1
    /\ Len(log) = 3
    /\ log[3].call = "list_tag"
    /\ result.cause.kind = "no_match"
    /\ WritesAt = {}


\* the parameters of radarr_lookup_movie that were supplied
SuppliedParams ==
    {n \in {"term", "tmdb_id", "imdb_id"} :
        \/ n = "term" /\ args.term.some
        \/ n = "tmdb_id" /\ args.tmdb_id.some
        \/ n = "imdb_id" /\ args.imdb_id.some}

\* the lookup that corresponds to a parameter
LookupFor(n) ==
    CASE n = "term" -> "list_movie_lookup"
      [] n = "tmdb_id" -> "list_movie_lookup_tmdb"
      [] n = "imdb_id" -> "list_movie_lookup_imdb"

\* C23: radarr_lookup_movie with zero, two or three of term, tmdb_id, imdb_id
\* supplied returns {error: "invalid_params"} without raising and without an
\* upstream call; with exactly one supplied it makes one upstream call, the
\* lookup of that parameter, and does not answer invalid_params.
C23_ExactlyOneParam ==
    op = "radarr_lookup_movie" =>
        /\ Cardinality(SuppliedParams) # 1 =>
              /\ ~result.raised
              /\ result.error = "invalid_params"
              /\ log = <<>>
        /\ Cardinality(SuppliedParams) = 1 =>
              /\ Len(log) = 1
              /\ \A n \in SuppliedParams : log[1].call = LookupFor(n)
              /\ result.error # "invalid_params"

\* tmdb_id 0 alone is a supplied parameter: the TMDB lookup is made
C23_Witness ==
    /\ op = "radarr_lookup_movie"
    /\ args.tmdb_id = Some(0)
    /\ SuppliedParams = {"tmdb_id"}
    /\ Len(log) = 1
    /\ log[1].call = "list_movie_lookup_tmdb"
    /\ ~result.raised


(***************************************************************************)
(* Claims about the server: read-only mode and the lifespan context.       *)
(***************************************************************************)
ServerUp == op \in {"registered", "serving"}

\* the tools that can send a modifying request upstream
MutatingTools == {t \in Tools : t.method \in {"POST", "PUT", "DELETE"}}

\* the modifying requests the upstream has received from the server
MutatingRequests ==
    {k \in 1..Len(log) : log[k].call \in {"POST", "PUT", "DELETE"}}

\* C24: in read-only mode every tool that can send a modifying request is
\* disabled and the upstream has received no modifying request, whatever
\* tools were invoked, while no registered tool tagged read is disabled;
\* outside read-only mode no tool is disabled.
C24_ReadOnlyDisablesWrites ==
    ServerUp =>
        /\ server.read_only =>
              /\ \A t \in MutatingTools : t.name \in server.disabled
              /\ MutatingRequests = {}
              /\ \A t \in Tools :
                    (t.tag = "read" /\ t.name \in server.registered) =>
                       t.name \notin server.disabled
        /\ ~server.read_only => server.disabled = {}

\* a read-only server with MCP_READ_ONLY=Yes answered a read tool and then
\* refused radarr_delete_movie: one request upstream, a GET
C24_Witness ==
    /\ op = "serving"
    /\ server.read_only
    /\ server.served = 2
    /\ Len(log) = 1
    /\ log[1].call = "GET"
    /\ args.tool = "radarr_delete_movie"
    /\ result.raised
    /\ result.error = "unknown tool"

\* the service a tool belongs to
ServiceOf(name) == (CHOOSE t \in Tools : t.name = name).service

\* C25: a service's client is in the lifespan context exactly when the
\* service is configured and its health check succeeded; the upstream of a
\* service without a client receives no request; an invocation of a
\* registered, enabled tool of such a service fails with "client not
\* available"; and the server keeps serving, so that a further invocation
\* can be made while fewer than the followed number were served.
C25_ClientAvailability ==
    op = "serving" =>
        /\ \A s \in Services :
              ClientKey(s) \in server.ctx <=>
                 (s \in server.configured /\ s \in server.healthy)
        /\ \A k \in 1..Len(log) : ClientKey(log[k].service) \in server.ctx
        /\ (/\ server.served > 0
            /\ args.tool \in server.registered
            /\ args.tool \notin server.disabled
            /\ ClientKey(ServiceOf(args.tool)) \notin server.ctx) =>
              /\ result.raised
              /\ result.error = "client not available"
        /\ server.served < MaxInvocations => ENABLED InvokeTool

\* radarr is configured but unhealthy, sonarr is healthy: of two invocations
\* one reached no upstream (a radarr tool, client not available) and the
\* later one, a sonarr tool, was answered by the upstream
C25_Witness ==
    /\ op = "serving"
    /\ ~server.read_only
    /\ server.configured = Services
    /\ server.healthy = {"sonarr"}
    /\ server.served = 2
    /\ Len(log) = 1
    /\ log[1].service = "sonarr"
    /\ ServiceOf(args.tool) = "sonarr"
    /\ ~result.raised

=============================================================================
